---- MODULE Spec2Model ----
(***************************************************************************)
(* Model of the METAR and TAF decoding / normalisation pipeline of         *)
(* src/app.py: parse_visibility, get_ceiling_from_clouds,                  *)
(* calculate_flight_category, decode_weather_codes, convert_to_local_time, *)
(* decode_cloud_layers, decode_taf_forecast with its helper                *)
(* deg_to_cardinal, and the enrichment block of fetch_metar.               *)
(*                                                                         *)
(* The decoding functions keep no state between calls, so a specification  *)
(* of one of them draws the arguments of one operation from a bounded set  *)
(* in its initial predicate and has one action that runs the operation;    *)
(* the globals of the module stay as the file initialises them.  The       *)
(* update cycle (update_weather_data, started at module load and by        *)
(* /api/update in background threads) works on the globals: weather_cache, *)
(* mqtt_connected and the cache file.                                      *)
(***************************************************************************)
EXTENDS Integers, Sequences, FiniteSets, TLC

VARIABLES
    call,            \* [op |-> name of the function called, args |-> its arguments]
    result,          \* Pending, Ret(value) or Raise(exception name)
    called,          \* the functions of the module the call has run so far
    weather_cache,   \* the in-memory cache: metar and taf by station key, last_update
    mqtt_connected,  \* the flag the MQTT callbacks set
    cycles,          \* the runs of update_weather_data: position and locals of each
    cache_file       \* the content of CACHE_FILE on disk

vars == <<call, result, called, weather_cache, mqtt_connected, cycles, cache_file>>

\* CACHE_FILE does not exist
NoFile == [t |-> "missing"]

\* the globals as the module defines them (lines 74-82), no cache file on disk
\* and no update cycle running
InitGlobals ==
    /\ weather_cache = [metar |-> <<>>, taf |-> <<>>, last_update |-> [t |-> "None"]]
    /\ mqtt_connected = FALSE
    /\ cycles = <<>>
    /\ cache_file = NoFile

(***************************************************************************)
(* Python values.  Every value is a tagged record, a dict is a function    *)
(* from its keys (strings) to values, a list is a sequence.  A str is a    *)
(* sequence of atoms: one character per atom for data that arrives from    *)
(* the provider, and one atom per literal for the texts of the lookup      *)
(* tables; Flat gives the text of a str.  A number is a decimal m / 10^e   *)
(* (type float) or an integer (type int).                                  *)
(***************************************************************************)
None == [t |-> "None"]
IntV(n) == [t |-> "int", v |-> n]
StrV(s) == [t |-> "str", v |-> s]
ListV(s) == [t |-> "list", v |-> s]
DictV(d) == [t |-> "dict", v |-> d]

RECURSIVE Pow10(_)
Pow10(k) == IF k = 0 THEN 1 ELSE 10 * Pow10(k - 1)

\* The float m / 10^e, trailing zeros of the fraction dropped (one record per value).
RECURSIVE FloatV(_, _)
FloatV(m, e) ==
    IF e > 0 /\ m % 10 = 0 THEN FloatV(m \div 10, e - 1)
    ELSE [t |-> "float", m |-> m, e |-> e]

IsNumber(x) == x.t \in {"int", "float"}

\* float(x) of an int or a float
ToFloat(x) == IF x.t = "int" THEN FloatV(x.v, 0) ELSE x

\* float('nan'): a float that is no number; it has no mantissa
NaN == [t |-> "float", nan |-> TRUE]
IsNaN(x) == x.t = "float" /\ "nan" \in DOMAIN x

\* comparisons of a float with an integer literal; every comparison with NaN
\* is false
FGt(x, n) == ~IsNaN(x) /\ x.m > n * Pow10(x.e)
FLt(x, n) == ~IsNaN(x) /\ x.m < n * Pow10(x.e)
FLe(x, n) == ~IsNaN(x) /\ x.m <= n * Pow10(x.e)

RECURSIVE Flat(_)
Flat(s) == IF s = <<>> THEN "" ELSE Head(s) \o Flat(Tail(s))

\* Python truthiness
Truthy(x) ==
    CASE x.t = "None" -> FALSE
      [] x.t = "int" -> x.v # 0
      [] x.t = "float" -> IsNaN(x) \/ x.m # 0
      [] x.t = "str" -> x.v # <<>>
      [] x.t = "list" -> x.v # <<>>
      [] x.t = "dict" -> DOMAIN x.v # {}
      [] OTHER -> TRUE   \* a non-empty timestamp string

\* d.get(k, default)
Get(d, k, default) == IF k \in DOMAIN d THEN d[k] ELSE default

\* d[k] = v
Put(d, k, v) == [x \in DOMAIN d \cup {k} |-> IF x = k THEN v ELSE d[x]]

\* outcome of a call
Pending == [st |-> "pending"]
Ret(v) == [st |-> "returned", val |-> v]
Raise(e) == [st |-> "raised", exc |-> e]

\* all sequences over S of length at most n
SeqsUpTo(S, n) == UNION {[1..k -> S] : k \in 0..n}

\* str.upper(), character by character
UpperChar(c) ==
    CASE c = "b" -> "B" [] c = "k" -> "K" [] c = "n" -> "N"
      [] c = "s" -> "S" [] c = "m" -> "M" [] c = "p" -> "P"
      [] OTHER -> c
Upper(s) == [i \in 1..Len(s) |-> UpperChar(s[i])]

\* sky-cover codes as they arrive from the provider
FEW == <<"F", "E", "W">>
SCT == <<"S", "C", "T">>
BKN == <<"B", "K", "N">>
OVC == <<"O", "V", "C">>
VV == <<"V", "V">>

(***************************************************************************)
(* calculate_flight_category(visibility_sm, ceiling_ft)                    *)
(* A comparison of None with a number raises TypeError.                    *)
(***************************************************************************)
calculate_flight_category_strict(visibility_sm, ceiling_ft) ==
    IF ~IsNumber(visibility_sm) THEN Raise("TypeError")
    ELSE LET v == ToFloat(visibility_sm)
             c == ceiling_ft
         IN IF FGt(v, 5) /\ (c = None \/ c.v > 3000) THEN Ret("VFR")
            ELSE IF FLt(v, 1) \/ (c # None /\ c.v < 500) THEN Ret("LIFR")
            ELSE IF FLt(v, 3) \/ (c # None /\ c.v < 1000) THEN Ret("IFR")
            ELSE IF FLt(v, 5) \/ (c # None /\ c.v < 3000) THEN Ret("MVFR")
            ELSE Ret("VFR")

calculate_flight_category(visibility_sm, ceiling_ft) ==
    IF ~IsNumber(visibility_sm) THEN Raise("TypeError")
    ELSE LET v == ToFloat(visibility_sm)
             c == ceiling_ft
         IN IF FGt(v, 5) /\ (c = None \/ c.v > 3000) THEN Ret("VFR")
            ELSE IF FLt(v, 1) \/ (c # None /\ c.v < 500) THEN Ret("LIFR")
            ELSE IF FLt(v, 3) \/ (c # None /\ c.v < 1000) THEN Ret("IFR")
            ELSE IF FLe(v, 5) \/ (c # None /\ c.v <= 3000) THEN Ret("MVFR")
            ELSE Ret("VFR")

(***************************************************************************)
(* get_ceiling_from_clouds(cloud_layers)                                   *)
(***************************************************************************)
\* int(base) inside try/except (ValueError, TypeError): the integer, or None
\* when the conversion raises.  A str converts when it is made of digits.
IsDigit(c) == c \in {"0", "1", "2", "3", "4", "5", "6", "7", "8", "9"}
DigitVal(c) ==
    CASE c = "0" -> 0 [] c = "1" -> 1 [] c = "2" -> 2 [] c = "3" -> 3
      [] c = "4" -> 4 [] c = "5" -> 5 [] c = "6" -> 6 [] c = "7" -> 7
      [] c = "8" -> 8 [] c = "9" -> 9

RECURSIVE DigitsVal(_)
DigitsVal(s) ==
    IF s = <<>> THEN 0 ELSE 10 * DigitsVal(SubSeq(s, 1, Len(s) - 1)) + DigitVal(s[Len(s)])

AllDigits(s) == s # <<>> /\ \A i \in 1..Len(s) : IsDigit(s[i])

IntOf(base) ==
    CASE base.t = "int" -> IntV(base.v)
      [] base.t = "float" -> IntV(base.m \div Pow10(base.e))
      [] base.t = "str" -> IF AllDigits(base.v) THEN IntV(DigitsVal(base.v)) ELSE None
      [] OTHER -> None

CeilingCovers == {BKN, OVC, VV}

RECURSIVE get_ceiling_from_clouds_lowest(_)
get_ceiling_from_clouds_lowest(cloud_layers) ==
    IF cloud_layers = <<>> THEN Ret(None)
    ELSE LET layer == Head(cloud_layers)
             cover == Get(layer, "cover", StrV(<<>>))
             rest == get_ceiling_from_clouds_lowest(Tail(cloud_layers))
             base == Get(layer, "base", None)
         IN IF cover.t # "str" THEN Raise("AttributeError")
            ELSE IF Upper(cover.v) \in CeilingCovers /\ base # None /\ IntOf(base) # None
                 THEN IF rest.st = "returned" /\ rest.val # None /\ rest.val.v < IntOf(base).v
                      THEN rest ELSE Ret(IntOf(base))
            ELSE rest

RECURSIVE get_ceiling_from_clouds(_)
get_ceiling_from_clouds(cloud_layers) ==
    IF cloud_layers = <<>> THEN Ret(None)
    ELSE LET layer == Head(cloud_layers)
             cover == Get(layer, "cover", StrV(<<>>))
             base == Get(layer, "base", None)
         IN IF cover.t # "str" THEN Raise("AttributeError")
            ELSE IF Upper(cover.v) \in CeilingCovers /\ base # None /\ IntOf(base) # None
                 THEN Ret(IntOf(base))
            ELSE get_ceiling_from_clouds(Tail(cloud_layers))

(***************************************************************************)
(* parse_visibility(visib_value)                                           *)
(***************************************************************************)
IsSpace(c) == c = " "

\* str.strip()
RECURSIVE LStrip(_)
LStrip(s) == IF s # <<>> /\ IsSpace(Head(s)) THEN LStrip(Tail(s)) ELSE s
RECURSIVE RStrip(_)
RStrip(s) ==
    IF s # <<>> /\ IsSpace(s[Len(s)]) THEN RStrip(SubSeq(s, 1, Len(s) - 1)) ELSE s
Strip(s) == RStrip(LStrip(s))

\* sub in s
Contains(s, sub) ==
    \E i \in 1..(Len(s) - Len(sub) + 1) : SubSeq(s, i, i + Len(sub) - 1) = sub

StartsWith(s, prefix) == Len(prefix) <= Len(s) /\ SubSeq(s, 1, Len(prefix)) = prefix

\* s.replace(sub, ''): the occurrences of sub are removed left to right, without overlap
RECURSIVE Remove(_, _)
Remove(s, sub) ==
    IF s = <<>> THEN <<>>
    ELSE IF StartsWith(s, sub) THEN Remove(SubSeq(s, Len(sub) + 1, Len(s)), sub)
    ELSE <<Head(s)>> \o Remove(Tail(s), sub)

\* float(s) of a str: surrounding blanks are ignored, then digits with at most one
\* point and at least one digit.  None stands for ValueError.  float() also
\* accepts a sign, an exponent, underscores between digits and the words inf,
\* infinity and nan; none of them can be spelled with the characters the
\* specifications draw from (VisChars, the raw fields of fetch_metar).
IsFloatLiteral(s) ==
    /\ \E i \in 1..Len(s) : IsDigit(s[i])
    /\ \A i \in 1..Len(s) : IsDigit(s[i]) \/ s[i] = "."
    /\ Cardinality({i \in 1..Len(s) : s[i] = "."}) <= 1

FloatOfLiteral(s) ==
    LET dots == {i \in 1..Len(s) : s[i] = "."}
        digits == SelectSeq(s, IsDigit)
    IN IF dots = {} THEN FloatV(DigitsVal(digits), 0)
       ELSE FloatV(DigitsVal(digits), Len(s) - (CHOOSE i \in dots : TRUE))

FloatOfStr(s) ==
    LET t == Strip(s) IN IF IsFloatLiteral(t) THEN FloatOfLiteral(t) ELSE None

SM == <<"S", "M">>

\* the variant that forgets the bare SM suffix
parse_visibility_no_suffix(visib_value) ==
    IF visib_value = None THEN None
    ELSE IF IsNumber(visib_value) THEN ToFloat(visib_value)
    ELSE IF visib_value.t # "str" THEN None
    ELSE LET s0 == Upper(Strip(visib_value.v))
             s1 == IF Contains(s0, <<"+">>) THEN Remove(s0, <<"+">>) ELSE s0
             s2 == IF Contains(s1, <<"P">>) /\ Contains(s1, SM)
                   THEN Remove(Remove(s1, <<"P">>), SM) ELSE s1
         IN FloatOfStr(s2)

\* A value that is neither None, a number nor a str (a list, a dict) has a str()
\* that is no float literal: ValueError, hence None.
parse_visibility(visib_value) ==
    IF visib_value = None THEN None
    ELSE IF IsNumber(visib_value) THEN ToFloat(visib_value)
    ELSE IF visib_value.t # "str" THEN None
    ELSE LET s0 == Upper(Strip(visib_value.v))
             s1 == IF Contains(s0, <<"+">>) THEN Remove(s0, <<"+">>) ELSE s0
             s2 == IF Contains(s1, <<"P">>) /\ Contains(s1, SM)
                   THEN Remove(Remove(s1, <<"P">>), SM) ELSE s1
             s3 == IF Contains(s2, SM) THEN Remove(s2, SM) ELSE s2
         IN FloatOfStr(s3)

(***************************************************************************)
(* decode_weather_codes(wx_string)                                         *)
(***************************************************************************)
\* the tables, in insertion order: <<code, text>>
descriptors ==
    << <<"M", "I", "Shallow">>, <<"P", "R", "Partial">>, <<"B", "C", "Patches">>,
       <<"D", "R", "Low Drifting">>, <<"B", "L", "Blowing">>, <<"S", "H", "Shower(s)">>,
       <<"T", "S", "Thunderstorm">>, <<"F", "Z", "Freezing">> >>

phenomena ==
    << <<"D", "Z", "Drizzle">>, <<"R", "A", "Rain">>, <<"S", "N", "Snow">>,
       <<"S", "G", "Snow Grains">>, <<"I", "C", "Ice Crystals">>,
       <<"P", "L", "Ice Pellets">>, <<"G", "R", "Hail">>, <<"G", "S", "Small Hail">>,
       <<"U", "P", "Unknown Precipitation">>, <<"B", "R", "Mist">>, <<"F", "G", "Fog">>,
       <<"F", "U", "Smoke">>, <<"V", "A", "Volcanic Ash">>, <<"D", "U", "Dust">>,
       <<"S", "A", "Sand">>, <<"H", "Z", "Haze">>, <<"P", "Y", "Spray">>,
       <<"P", "O", "Dust Whirls">>, <<"S", "Q", "Squalls">>, <<"F", "C", "Funnel Cloud">>,
       <<"S", "S", "Sandstorm">>, <<"D", "S", "Duststorm">> >>

CodeOf(entry) == <<entry[1], entry[2]>>
TextOf(entry) == entry[3]

\* for code, desc in table.items(): if s.startswith(code): ... break
\* the index of the first entry whose code is a prefix of s, 0 when there is none
FirstMatch(table, s) ==
    IF \E i \in 1..Len(table) : StartsWith(s, CodeOf(table[i]))
    THEN CHOOSE i \in 1..Len(table) :
            /\ StartsWith(s, CodeOf(table[i]))
            /\ \A j \in 1..(i - 1) : ~StartsWith(s, CodeOf(table[j]))
    ELSE 0

\* the while loop over the phenomena: the text appended to decoded
RECURSIVE DecodePhenomena(_)
DecodePhenomena(remaining) ==
    IF remaining = <<>> THEN <<>>
    ELSE LET i == FirstMatch(phenomena, remaining)
         IN IF i = 0 THEN <<>>
            ELSE <<TextOf(phenomena[i]), " ">>
                     \o DecodePhenomena(SubSeq(remaining, 3, Len(remaining)))

\* the variant whose loop stops after the first phenomenon
DecodePhenomenaOnce(remaining) ==
    IF remaining = <<>> THEN <<>>
    ELSE LET i == FirstMatch(phenomena, remaining)
         IN IF i = 0 THEN <<>> ELSE <<TextOf(phenomena[i]), " ">>

decode_weather_codes_once(wx_string) ==
    IF ~Truthy(wx_string) THEN Ret(StrV(<<>>))
    ELSE IF wx_string.t # "str" THEN Raise("AttributeError")
    ELSE LET s0 == wx_string.v
             intensity == IF StartsWith(s0, <<"-">>) THEN <<"Light", " ">>
                          ELSE IF StartsWith(s0, <<"+">>) THEN <<"Heavy", " ">>
                          ELSE <<>>
             s1 == IF intensity # <<>> THEN Tail(s0) ELSE s0
             d == FirstMatch(descriptors, s1)
             s2 == IF d # 0 THEN SubSeq(s1, 3, Len(s1)) ELSE s1
             decoded == intensity
                            \o (IF d # 0 THEN <<TextOf(descriptors[d]), " ">> ELSE <<>>)
                            \o DecodePhenomenaOnce(s2)
         IN Ret(StrV(IF Strip(decoded) # <<>> THEN Strip(decoded) ELSE s2))

\* not wx_string: None, "" and 0 give "".  startswith on a value that is no str
\* raises AttributeError.  wx_string is reassigned after the intensity and after
\* the descriptor, and that last value is what the final "or" falls back to.
decode_weather_codes(wx_string) ==
    IF ~Truthy(wx_string) THEN Ret(StrV(<<>>))
    ELSE IF wx_string.t # "str" THEN Raise("AttributeError")
    ELSE LET s0 == wx_string.v
             intensity == IF StartsWith(s0, <<"-">>) THEN <<"Light", " ">>
                          ELSE IF StartsWith(s0, <<"+">>) THEN <<"Heavy", " ">>
                          ELSE <<>>
             s1 == IF intensity # <<>> THEN Tail(s0) ELSE s0
             d == FirstMatch(descriptors, s1)
             s2 == IF d # 0 THEN SubSeq(s1, 3, Len(s1)) ELSE s1
             decoded == intensity
                            \o (IF d # 0 THEN <<TextOf(descriptors[d]), " ">> ELSE <<>>)
                            \o DecodePhenomena(s2)
         IN Ret(StrV(IF Strip(decoded) # <<>> THEN Strip(decoded) ELSE s2))

(***************************************************************************)
(* convert_to_local_time(utc_time_str)                                     *)
(* A timestamp string that denotes an instant is held by what it parses    *)
(* to, not by its characters: TimeStr(form, epoch) with form "digits"      *)
(* (int() accepts it), "decimal" (digits with a point), "iso" (ISO-8601    *)
(* with a T), "ymd" (YYYY-MM-DD HH:MM:SS), "badT" (a T but no ISO-8601     *)
(* date), "bigdigits" (digits of a number beyond the years 1 to 9999) or   *)
(* "garbage", and the instant it denotes in epoch seconds.  A str given by *)
(* its characters (StrV) is one that spells no date: it is an epoch when   *)
(* it is made of digits and fails every other parse.  BigInt(text) is an   *)
(* int beyond the years 1 to 9999, held by its decimal text.               *)
(* The formatted outputs depend on the instant to the minute.              *)
(***************************************************************************)
TimeStr(form, epoch) == [t |-> "timestr", form |-> form, epoch |-> epoch]
Formatted(fmt, epoch) == [t |-> "formatted", fmt |-> fmt, minute |-> epoch \div 60]
BigInt(text) == [t |-> "bigint", text |-> text]

\* the digits of n, zero-padded to width
RECURSIVE PadDigits(_, _)
PadDigits(n, width) ==
    IF width = 0 THEN "" ELSE PadDigits(n \div 10, width - 1) \o ToString(n % 10)

\* the text of str(x) and of {x} in an f-string (a float of the model is small
\* and non-negative: Python writes it in plain decimal notation)
PyStr(x) ==
    CASE x.t = "None" -> "None"
      [] x.t = "int" -> ToString(x.v)
      [] x.t = "bigint" -> x.text
      [] x.t = "float" ->
            ToString(x.m \div Pow10(x.e)) \o "."
                \o (IF x.e = 0 THEN "0" ELSE PadDigits(x.m % Pow10(x.e), x.e))
      [] x.t = "str" -> Flat(x.v)
      [] x.t = "list" -> IF x.v = <<>> THEN "[]" ELSE "[...]"
      [] x.t = "timestr" -> "<" \o x.form \o " " \o ToString(x.epoch) \o ">"
      [] x.t = "formatted" -> "<" \o x.fmt \o " " \o ToString(x.minute) \o ">"

\* str(x) as a value: a str is returned as it is
StrOf(x) == IF x.t \in {"str", "timestr", "formatted"} THEN x ELSE StrV(<<PyStr(x)>>)

\* the three slots set to str(x)
Passthrough(x) == [utc |-> StrOf(x), local |-> StrOf(x), local_short |-> StrOf(x)]

Localized(epoch) ==
    [utc |-> Formatted("utc", epoch), local |-> Formatted("local", epoch),
     local_short |-> Formatted("local_short", epoch), iso |-> Formatted("iso", epoch)]

\* datetime.fromtimestamp(n, tz=timezone.utc): the instant within the years 1 to
\* 9999, and an error outside (ValueError or OverflowError; both are caught the
\* same way)
FromTimestamp(n) ==
    IF n.t = "bigint" THEN Raise("ValueError") ELSE Ret(IntOf(n).v)

\* int(s) of a str without its surrounding blanks, then fromtimestamp: an
\* optional sign and digits
IntOfText(s) ==
    IF AllDigits(s) THEN FromTimestamp(IntV(DigitsVal(s)))
    ELSE IF s # <<>> /\ s[1] \in {"-", "+"} /\ AllDigits(Tail(s))
         THEN FromTimestamp(IntV(IF s[1] = "-" THEN 0 - DigitsVal(Tail(s))
                                 ELSE DigitsVal(Tail(s))))
    ELSE Raise("ValueError")

\* int(utc_time_str) and fromtimestamp inside try/except (ValueError, OverflowError)
EpochOfStr(x) ==
    IF x.t = "timestr"
    THEN IF x.form = "digits" THEN FromTimestamp(IntV(x.epoch))
         ELSE IF x.form = "bigdigits" THEN FromTimestamp(BigInt(PyStr(x)))
         ELSE Raise("ValueError")
    ELSE IntOfText(Strip(x.v))

\* the parse of lines 1135-1149: the instant, or the exception that leaves the try
ParseTime(x) ==
    IF IsNumber(x) \/ x.t = "bigint" THEN FromTimestamp(x)
    ELSE IF EpochOfStr(x).st = "returned" THEN EpochOfStr(x)
    ELSE IF x.t = "timestr" /\ x.form \in {"iso", "badT"}
         THEN IF x.form = "iso" THEN Ret(x.epoch) ELSE Raise("ValueError")
    ELSE IF x.t = "timestr" /\ x.form = "ymd" THEN Ret(x.epoch)
    ELSE Raise("ValueError")

\* the variant whose handler returns the empty slots
convert_to_local_time_blank(utc_time_str) ==
    LET x == utc_time_str
        blank == [utc |-> StrV(<<>>), local |-> StrV(<<>>), local_short |-> StrV(<<>>)]
    IN IF ~Truthy(x) THEN blank
       ELSE IF ~IsNumber(x) /\ x.t \notin {"bigint", "str", "timestr"} THEN Passthrough(x)
       ELSE IF ParseTime(x).st = "raised" THEN blank
       ELSE Localized(ParseTime(x).val)

\* every exception of the parse is caught by the outer handler (line 1162)
convert_to_local_time(utc_time_str) ==
    LET x == utc_time_str
    IN IF ~Truthy(x)
       THEN [utc |-> StrV(<<>>), local |-> StrV(<<>>), local_short |-> StrV(<<>>)]
       ELSE IF ~IsNumber(x) /\ x.t \notin {"bigint", "str", "timestr"} THEN Passthrough(x)
       ELSE IF ParseTime(x).st = "raised" THEN Passthrough(x)
       ELSE Localized(ParseTime(x).val)

(***************************************************************************)
(* decode_cloud_layers(metar_data)                                         *)
(***************************************************************************)
cover_decode ==
    { <<<<"S", "K", "C">>, "Sky Clear">>, <<<<"C", "L", "R">>, "Clear">>,
      <<<<"N", "S", "C">>, "No Significant Clouds">>, <<FEW, "Few">>,
      <<SCT, "Scattered">>, <<BKN, "Broken">>, <<OVC, "Overcast">>,
      <<VV, "Vertical Visibility">> }

coverage_detail ==
    { <<<<"S", "K", "C">>, "0/8 (0%)">>, <<<<"C", "L", "R">>, "0/8 (0%)">>,
      <<<<"N", "S", "C">>, "0/8 (0%)">>, <<FEW, "1-2/8 (12-25%)">>,
      <<BKN, "5-7/8 (62-87%)">>, <<OVC, "8/8 (100%)">>, <<VV, "Sky Obscured">> }

cloud_types ==
    { <<<<"C", "B">>, "Cumulonimbus">>, <<<<"T", "C", "U">>, "Towering Cumulus">>,
      <<<<"C", "I">>, "Cirrus">>, <<<<"C", "C">>, "Cirrocumulus">>,
      <<<<"C", "S">>, "Cirrostratus">>, <<<<"A", "C">>, "Altocumulus">>,
      <<<<"A", "S">>, "Altostratus">>, <<<<"N", "S">>, "Nimbostratus">>,
      <<<<"S", "C">>, "Stratocumulus">>, <<<<"S", "T">>, "Stratus">>,
      <<<<"C", "U">>, "Cumulus">> }

\* key in table
InTable(table, key) == key.t = "str" /\ \E e \in table : e[1] = key.v

\* table.get(key, default)
Lookup(table, key, default) ==
    IF InTable(table, key) THEN StrV(<<(CHOOSE e \in table : e[1] = key.v)[2]>>)
    ELSE default

\* f"{n:,}" of an integer n >= 0
RECURSIVE Thousands(_)
Thousands(n) ==
    IF n < 1000 THEN ToString(n)
    ELSE Thousands(n \div 1000) \o "," \o PadDigits(n % 1000, 3)

\* f"{x:,}" of a number
FormatNumber(x) ==
    IF x.t = "int" THEN Thousands(x.v)
    ELSE Thousands(x.m \div Pow10(x.e)) \o "."
            \o (IF x.e = 0 THEN "0" ELSE PadDigits(x.m % Pow10(x.e), x.e))

\* one pass of the loop over metar_data['clouds']
DecodeLayer(cloud) ==
    LET l0 == <<>>
        l1 == IF "cover" \in DOMAIN cloud
              THEN Put(Put(Put(l0, "cover", cloud.cover),
                           "cover_text", Lookup(cover_decode, cloud.cover, cloud.cover)),
                       "coverage_detail", Lookup(coverage_detail, cloud.cover, StrV(<<>>)))
              ELSE l0
        l2 == IF "base" \in DOMAIN cloud
              THEN LET a == Put(l1, "altitude", cloud.base)
                   IN IF IsNumber(cloud.base)
                      THEN Put(Put(a, "altitude_agl",
                                   StrV(<<Thousands(IntOf(cloud.base).v), " ft AGL">>)),
                               "altitude_msl",
                               StrV(<<"~", Thousands(IntOf(cloud.base).v), " ft">>))
                      ELSE a
              ELSE l1
        l3 == IF "type" \in DOMAIN cloud /\ Truthy(cloud.type)
              THEN Put(Put(l2, "cloud_type", Lookup(cloud_types, cloud.type, cloud.type)),
                       "cloud_type_code", cloud.type)
              ELSE l2
    IN l3

\* the layers of the first two tiers
TierLayers(metar_data) ==
    IF "clouds" \in DOMAIN metar_data /\ Truthy(metar_data.clouds)
    THEN [i \in 1..Len(metar_data.clouds.v) |-> DecodeLayer(metar_data.clouds.v[i])]
    ELSE IF "cover" \in DOMAIN metar_data /\ Truthy(metar_data.cover)
              /\ InTable(cover_decode, metar_data.cover)
    THEN << [cover |-> metar_data.cover,
             cover_text |-> Lookup(cover_decode, metar_data.cover, None),
             coverage_detail |-> Lookup(coverage_detail, metar_data.cover, StrV(<<>>)),
             altitude |-> None, altitude_agl |-> None, cloud_type |-> None] >>
    ELSE <<>>

\* the format specification "," on a value that is no number raises ValueError
decode_cloud_layers(metar_data) ==
    LET cloud_layers == TierLayers(metar_data)
    IN IF cloud_layers = <<>> /\ "ceiling" \in DOMAIN metar_data /\ Truthy(metar_data.ceiling)
       THEN IF IsNumber(metar_data.ceiling)
            THEN Ret(<< [cover |-> StrV(<<"Ceiling">>), cover_text |-> StrV(<<"Ceiling">>),
                         altitude |-> metar_data.ceiling,
                         altitude_agl |->
                             StrV(<<FormatNumber(metar_data.ceiling), " ft AGL">>)] >>)
            ELSE Raise("ValueError")
       ELSE Ret(cloud_layers)

(***************************************************************************)
(* fetch_metar(airport_code): the enrichment of data[0]                    *)
(* The steps run on x = [st, metar, called]; a step that raises leaves     *)
(* [st |-> "raised", exc, called] and the later steps do not run.          *)
(***************************************************************************)
Ok(metar, fns) == [st |-> "ok", metar |-> metar, called |-> fns]
Failed(exc, fns) == [st |-> "raised", exc |-> exc, called |-> fns]

\* if 'wxString' in metar and metar['wxString']: metar['wxDecoded'] = ...
EnrichWeather(x) ==
    IF x.st # "ok" THEN x
    ELSE IF "wxString" \in DOMAIN x.metar /\ Truthy(x.metar.wxString)
    THEN LET r == decode_weather_codes(x.metar.wxString)
             fns == x.called \cup {"decode_weather_codes"}
         IN IF r.st = "raised" THEN Failed(r.exc, fns)
            ELSE Ok(Put(x.metar, "wxDecoded", r.val), fns)
    ELSE x

\* metar['cloudLayers'] = decode_cloud_layers(metar)
EnrichClouds(x) ==
    IF x.st # "ok" THEN x
    ELSE LET r == decode_cloud_layers(x.metar)
             fns == x.called \cup {"decode_cloud_layers"}
         IN IF r.st = "raised" THEN Failed(r.exc, fns)
            ELSE Ok(Put(x.metar, "cloudLayers", ListV(r.val)), fns)

\* the classification from the visibility and the ceiling of the decoded layers
ComputeFlightCategory(x) ==
    LET visibility_sm == parse_visibility(Get(x.metar, "visib", IntV(10)))
        ceiling == get_ceiling_from_clouds(Get(x.metar, "cloudLayers", ListV(<<>>)).v)
        fns1 == x.called \cup {"parse_visibility", "get_ceiling_from_clouds"}
        fns2 == fns1 \cup {"calculate_flight_category"}
    IN IF ceiling.st = "raised" THEN Failed(ceiling.exc, fns1)
       ELSE LET category == calculate_flight_category(visibility_sm, ceiling.val)
            IN IF category.st = "raised" THEN Failed(category.exc, fns2)
               ELSE Ok(Put(x.metar, "flightCategory", StrV(<<category.val>>)), fns2)

\* the variant that classifies whatever the source supplied
EnrichFlightCategoryAlways(x) ==
    IF x.st # "ok" THEN x ELSE ComputeFlightCategory(x)

\* if 'flightCategory' not in metar or not metar['flightCategory']: ...
EnrichFlightCategory(x) ==
    IF x.st # "ok" THEN x
    ELSE IF "flightCategory" \notin DOMAIN x.metar \/ ~Truthy(x.metar.flightCategory)
    THEN ComputeFlightCategory(x)
    ELSE x

\* if 'obsTime' in metar: metar['obsTimeLocal'] = convert_to_local_time(...)
EnrichObsTime(x) ==
    IF x.st # "ok" THEN x
    ELSE IF "obsTime" \in DOMAIN x.metar
    THEN Ok(Put(x.metar, "obsTimeLocal", DictV(convert_to_local_time(x.metar.obsTime))),
            x.called \cup {"convert_to_local_time"})
    ELSE x

\* _to_float(v): float(v), None when it raises
to_float(v) ==
    IF IsNumber(v) THEN ToFloat(v)
    ELSE IF v.t = "str" THEN FloatOfStr(v.v)
    ELSE None

\* round(a / b) of Python for a >= 0, b > 0: to the nearest, a tie to the even one.
\* (Python rounds the binary product, so an exact decimal tie such as
\* 500 * 0.02953 = 14.765 may go either way; no value of the model is a tie.)
RoundHalfEven(a, b) ==
    LET q == a \div b
        r == a % b
    IN IF 2 * r < b THEN q
       ELSE IF 2 * r > b THEN q + 1
       ELSE IF q % 2 = 0 THEN q ELSE q + 1

\* round(x, 2)
Round2(x) == IF x.e <= 2 THEN x ELSE FloatV(RoundHalfEven(x.m, Pow10(x.e - 2)), 2)

\* round(x * 0.02953, 2)
ToInHg(x) == FloatV(RoundHalfEven(x.m * 2953, Pow10(x.e + 3)), 2)

\* round(x / 0.02953)
ToHpa(x) == IntV(RoundHalfEven(x.m * 100000, 2953 * Pow10(x.e)))

\* the variant with the threshold taken as >= 60
NormalizeAltimeterInclusive(metar) ==
    LET altim_f == to_float(Get(metar, "altim", None))
        press_f == to_float(Get(metar, "press", None))
    IN IF altim_f # None
       THEN IF ~FLt(altim_f, 60)
            THEN Put(Put(metar, "altimHpa", altim_f), "altimInHg", ToInHg(altim_f))
            ELSE Put(Put(metar, "altimInHg", Round2(altim_f)), "altimHpa", ToHpa(altim_f))
       ELSE IF press_f # None
       THEN Put(Put(metar, "altimHpa", press_f), "altimInHg", ToInHg(press_f))
       ELSE metar

\* the variant that prefers the pressure field
NormalizeAltimeterPressFirst(metar) ==
    LET altim_f == to_float(Get(metar, "altim", None))
        press_f == to_float(Get(metar, "press", None))
    IN IF press_f # None
       THEN Put(Put(metar, "altimHpa", press_f), "altimInHg", ToInHg(press_f))
       ELSE IF altim_f # None
       THEN IF FGt(altim_f, 60)
            THEN Put(Put(metar, "altimHpa", altim_f), "altimInHg", ToInHg(altim_f))
            ELSE Put(Put(metar, "altimInHg", Round2(altim_f)), "altimHpa", ToHpa(altim_f))
       ELSE metar

\* the body of the try block that normalises the altimeter
NormalizeAltimeter(metar) ==
    LET altim_f == to_float(Get(metar, "altim", None))
        press_f == to_float(Get(metar, "press", None))
    IN IF altim_f # None
       THEN IF FGt(altim_f, 60)
            THEN Put(Put(metar, "altimHpa", altim_f), "altimInHg", ToInHg(altim_f))
            ELSE Put(Put(metar, "altimInHg", Round2(altim_f)), "altimHpa", ToHpa(altim_f))
       ELSE IF press_f # None
       THEN Put(Put(metar, "altimHpa", press_f), "altimInHg", ToInHg(press_f))
       ELSE metar

EnrichAltimeter(x) ==
    IF x.st # "ok" THEN x ELSE Ok(NormalizeAltimeter(x.metar), x.called)

\* resp is what the provider answered: kind "error" (a RequestException, an
\* HTTP error status included), "204", "empty" (an empty list) or "data" with
\* the first record in resp.metar.  Only RequestException is caught.
fetch_metar(resp) ==
    IF resp.kind # "data" THEN [out |-> Ret(None), called |-> {"fetch_metar"}]
    ELSE LET x == EnrichAltimeter(EnrichObsTime(EnrichFlightCategory(
                      EnrichClouds(EnrichWeather(Ok(resp.metar, {"fetch_metar"}))))))
         IN IF x.st = "raised" THEN [out |-> Raise(x.exc), called |-> x.called]
            ELSE [out |-> Ret(DictV(x.metar)), called |-> x.called]

(***************************************************************************)
(* Specification of calculate_flight_category over a grid of visibilities  *)
(* (tenths of a statute mile) and optional ceilings (feet).                *)
(***************************************************************************)
MaxVisTenths == 70
MaxCeilHundreds == 35

VisGrid == {FloatV(m, 1) : m \in 0..MaxVisTenths}
CeilGrid ==
    {None} \cup {IntV(h * 100 + d) : h \in 1..MaxCeilHundreds, d \in {-1, 0, 1}}
           \cup {IntV(0)}

InitClassify ==
    /\ call \in {[op |-> "calculate_flight_category", args |-> <<v, c>>] :
                    v \in VisGrid, c \in CeilGrid}
    /\ result = Pending
    /\ called = {}
    /\ InitGlobals

Classify ==
    /\ call.op = "calculate_flight_category"
    /\ result = Pending
    /\ result' = calculate_flight_category(call.args[1], call.args[2])
    /\ called' = {call.op}
    /\ UNCHANGED <<call, weather_cache, mqtt_connected, cycles, cache_file>>

NextClassify == Classify

SpecClassify == InitClassify /\ [][NextClassify]_vars

(***************************************************************************)
(* Specification of get_ceiling_from_clouds over short layer lists.        *)
(***************************************************************************)
MaxLayers == 2

LayerCovers == {StrV(FEW), StrV(BKN), StrV(OVC), StrV(VV), StrV(<<"b", "k", "n">>), None}
LayerBases ==
    {None, IntV(400), IntV(800), IntV(4500), FloatV(9005, 1),
     StrV(<<"8", "0", "0">>), StrV(<<"M">>)}

CeilingLayers ==
    {[cover |-> c, base |-> b] : c \in LayerCovers, b \in LayerBases}
        \cup {[cover |-> c] : c \in LayerCovers \ {None}}
        \cup {[base |-> b] : b \in {IntV(800)}}

InitCeiling ==
    /\ call \in {[op |-> "get_ceiling_from_clouds", args |-> <<ls>>] :
                    ls \in SeqsUpTo(CeilingLayers, MaxLayers)}
    /\ result = Pending
    /\ called = {}
    /\ InitGlobals

Ceiling ==
    /\ call.op = "get_ceiling_from_clouds"
    /\ result = Pending
    /\ result' = get_ceiling_from_clouds(call.args[1])
    /\ called' = {call.op}
    /\ UNCHANGED <<call, weather_cache, mqtt_connected, cycles, cache_file>>

NextCeiling == Ceiling

SpecCeiling == InitCeiling /\ [][NextCeiling]_vars

(***************************************************************************)
(* Specification of parse_visibility over every string of at most          *)
(* MaxVisLen characters of VisChars, None and a few numbers.               *)
(***************************************************************************)
MaxVisLen == 4

VisChars == {"0", "1", "6", ".", "+", "P", "S", "M", "s", " "}

VisInputs ==
    {StrV(s) : s \in SeqsUpTo(VisChars, MaxVisLen)}
        \cup {None, IntV(10), IntV(0), FloatV(25, 1), ListV(<<>>)}

InitVisibility ==
    /\ call \in {[op |-> "parse_visibility", args |-> <<x>>] : x \in VisInputs}
    /\ result = Pending
    /\ called = {}
    /\ InitGlobals

Visibility ==
    /\ call.op = "parse_visibility"
    /\ result = Pending
    /\ result' = Ret(parse_visibility(call.args[1]))
    /\ called' = {call.op}
    /\ UNCHANGED <<call, weather_cache, mqtt_connected, cycles, cache_file>>

NextVisibility == Visibility

SpecVisibility == InitVisibility /\ [][NextVisibility]_vars

(***************************************************************************)
(* Specification of decode_weather_codes over every string of at most      *)
(* MaxWxLen characters of WxChars, None and a number.                      *)
(***************************************************************************)
MaxWxLen == 5

WxChars == {"-", "+", "T", "S", "R", "A", "B", "X"}

WxInputs == {StrV(s) : s \in SeqsUpTo(WxChars, MaxWxLen)} \cup {None, IntV(5)}

InitWeather ==
    /\ call \in {[op |-> "decode_weather_codes", args |-> <<x>>] : x \in WxInputs}
    /\ result = Pending
    /\ called = {}
    /\ InitGlobals

Weather ==
    /\ call.op = "decode_weather_codes"
    /\ result = Pending
    /\ result' = decode_weather_codes(call.args[1])
    /\ called' = {call.op}
    /\ UNCHANGED <<call, weather_cache, mqtt_connected, cycles, cache_file>>

NextWeather == Weather

SpecWeather == InitWeather /\ [][NextWeather]_vars

(***************************************************************************)
(* Specification of fetch_metar: the provider's answer is drawn from       *)
(* MetarResponses, records that vary the fields of one concern at a time.  *)
(***************************************************************************)
\* a field the provider omitted
Absent == [t |-> "absent"]
MkDict(f) == [k \in {j \in DOMAIN f : f[j] # Absent} |-> f[k]]

Chars10 == <<"1", "0">>
MVFRChars == <<"M", "V", "F", "R">>

RawVisibilities ==
    {Absent, None, IntV(10), IntV(2), FloatV(5, 1), StrV(Chars10), StrV(<<"M">>)}
RawCategories == {Absent, StrV(<<>>), StrV(MVFRChars)}

RawClouds ==
    {[cover |-> c, base |-> b] :
        c \in {StrV(FEW), StrV(BKN), StrV(OVC), None}, b \in {None, IntV(800), IntV(4500)}}
      \cup {[cover |-> StrV(SCT)],
            [cover |-> StrV(<<"X", "X">>), base |-> IntV(12000), type |-> StrV(<<"C", "B">>)]}

RawCovers == {Absent, StrV(OVC), StrV(<<"X", "X">>)}
RawCeilings == {Absent, IntV(800), IntV(0), StrV(<<"8", "0", "0">>)}

RawAltimeters ==
    {Absent, None, StrV(<<"M">>), StrV(<<"1", "0", "1", "6">>), IntV(0), IntV(60),
     IntV(61), IntV(1013), FloatV(2992, 2), FloatV(3015, 2), FloatV(10132, 1)}
        \cup {FloatV(h, 2) : h \in 5995..6005}
RawPressures == {Absent, None, IntV(1005), FloatV(10132, 1), StrV(<<"M">>)}

RawWeather ==
    {Absent, StrV(<<>>), StrV(<<"-", "R", "A">>), StrV(<<"X", "Y">>), IntV(5)}
RawObsTimes ==
    {Absent, None, IntV(1700000000), TimeStr("iso", 1700000000),
     TimeStr("decimal", 1700000000), TimeStr("garbage", 0)}

NoFields ==
    [visib |-> StrV(Chars10), flightCategory |-> Absent, clouds |-> Absent,
     cover |-> Absent, ceiling |-> Absent, altim |-> Absent, press |-> Absent,
     wxString |-> Absent, obsTime |-> Absent]

\* the observation of the end-to-end example
ExampleObservation ==
    [temp |-> IntV(22), dewp |-> IntV(15), wdir |-> IntV(0), wspd |-> IntV(5),
     visib |-> StrV(Chars10), cover |-> StrV(OVC),
     clouds |-> ListV(<<[cover |-> StrV(OVC), base |-> IntV(800)]>>),
     wxString |-> StrV(<<"-", "R", "A">>)]

RawObservations ==
    {MkDict([NoFields EXCEPT !.visib = v, !.flightCategory = f, !.clouds = ListV(ls)]) :
        v \in RawVisibilities, f \in RawCategories, ls \in SeqsUpTo(RawClouds, MaxLayers)}
      \cup {MkDict([NoFields EXCEPT !.visib = v, !.flightCategory = f,
                                    !.cover = c, !.ceiling = g]) :
                v \in RawVisibilities, f \in RawCategories,
                c \in RawCovers, g \in RawCeilings}
      \cup {MkDict([NoFields EXCEPT !.altim = a, !.press = q]) :
                a \in RawAltimeters, q \in RawPressures}
      \cup {MkDict([NoFields EXCEPT !.wxString = w, !.obsTime = o]) :
                w \in RawWeather, o \in RawObsTimes}
      \cup {ExampleObservation}

MetarResponses ==
    {[kind |-> "data", metar |-> m] : m \in RawObservations}
        \cup {[kind |-> k] : k \in {"error", "204", "empty"}}

InitMetar ==
    /\ call \in {[op |-> "fetch_metar", args |-> <<r>>] : r \in MetarResponses}
    /\ result = Pending
    /\ called = {}
    /\ InitGlobals

FetchMetar ==
    /\ call.op = "fetch_metar"
    /\ result = Pending
    /\ result' = fetch_metar(call.args[1]).out
    /\ called' = fetch_metar(call.args[1]).called
    /\ UNCHANGED <<call, weather_cache, mqtt_connected, cycles, cache_file>>

NextMetar == FetchMetar

Spec == InitMetar /\ [][NextMetar]_vars

(***************************************************************************)
(* Claims about calculate_flight_category (SpecClassify).                  *)
(***************************************************************************)
Classified == call.op = "calculate_flight_category" /\ result # Pending

\* visibility in tenths of a statute mile, for the values of VisGrid
Tenths(v) == IF v.e = 0 THEN 10 * v.m ELSE v.m

\* C2: for every visibility v and optional ceiling c the category is the one of
\* the first matching rule, in the order VFR (v > 5 and no ceiling or c > 3000),
\* LIFR (v < 1 or c < 500), IFR (v < 3 or c < 1000), MVFR (v <= 5 or c <= 3000),
\* otherwise VFR; (6, none) is VFR, (4, 2000) MVFR, (2, 800) IFR, (0.5, 400) LIFR
\* and (5, 3000) MVFR.
C2_FirstMatchingRule ==
    Classified =>
        LET v == Tenths(call.args[1])
            c == call.args[2]
            has == c # None
            rule1 == v > 50 /\ (~has \/ c.v > 3000)
            rule2 == v < 10 \/ (has /\ c.v < 500)
            rule3 == v < 30 \/ (has /\ c.v < 1000)
            rule4 == v <= 50 \/ (has /\ c.v <= 3000)
        IN /\ rule1 => result = Ret("VFR")
           /\ ~rule1 /\ rule2 => result = Ret("LIFR")
           /\ ~rule1 /\ ~rule2 /\ rule3 => result = Ret("IFR")
           /\ ~rule1 /\ ~rule2 /\ ~rule3 /\ rule4 => result = Ret("MVFR")
           /\ ~rule1 /\ ~rule2 /\ ~rule3 /\ ~rule4 => result = Ret("VFR")
           /\ (v = 60 /\ ~has) => result = Ret("VFR")
           /\ (v = 40 /\ c = IntV(2000)) => result = Ret("MVFR")
           /\ (v = 20 /\ c = IntV(800)) => result = Ret("IFR")
           /\ (v = 5 /\ c = IntV(400)) => result = Ret("LIFR")
           /\ (v = 50 /\ c = IntV(3000)) => result = Ret("MVFR")

\* the inclusive boundary (5, 3000) has been classified, as MVFR
C2_Witness ==
    /\ Classified
    /\ call.args = <<FloatV(5, 0), IntV(3000)>>
    /\ result = Ret("MVFR")

(***************************************************************************)
(* Claims about get_ceiling_from_clouds (SpecCeiling).                     *)
(***************************************************************************)
CeilingDone == call.op = "get_ceiling_from_clouds" /\ result # Pending

HasCeilingCover(layer) ==
    /\ "cover" \in DOMAIN layer
    /\ layer.cover.t = "str"
    /\ Upper(layer.cover.v) \in CeilingCovers

\* the base altitude of a layer as an integer, None when it has none
BaseAltitude(layer) == IF "base" \in DOMAIN layer THEN IntOf(layer.base) ELSE None

HasBadCover(layer) == "cover" \in DOMAIN layer /\ layer.cover.t # "str"

\* the first index of ls that satisfies P, 0 when there is none
FirstIndex(ls, P(_)) ==
    IF \E i \in 1..Len(ls) : P(ls[i])
    THEN CHOOSE i \in 1..Len(ls) : P(ls[i]) /\ \A j \in 1..(i - 1) : ~P(ls[j])
    ELSE 0

\* C4 as stated: the result is the base altitude of the first layer whose cover
\* is BKN, OVC or VV, and None when no layer has such a cover.
C4_FirstCeilingCover ==
    (CeilingDone /\ result.st = "returned") =>
        LET ls == call.args[1]
            i == FirstIndex(ls, HasCeilingCover)
        IN result.val = IF i = 0 THEN None ELSE BaseAltitude(ls[i])

\* C4 amended: the layers are scanned in source order and the result is the base
\* altitude of the first layer whose cover is BKN, OVC or VV and whose base
\* converts to an integer; such a layer with an absent or non-numeric base is
\* skipped; when no layer qualifies the result is None, never zero.  (A cover
\* that is not a string, met before that layer, raises AttributeError.)
UsableCeiling(layer) == HasCeilingCover(layer) /\ BaseAltitude(layer) # None
StopsScan(layer) == UsableCeiling(layer) \/ HasBadCover(layer)

C4_FirstUsableCeiling ==
    CeilingDone =>
        LET ls == call.args[1]
            i == FirstIndex(ls, StopsScan)
        IN /\ i = 0 => result = Ret(None)
           /\ (i > 0 /\ HasBadCover(ls[i])) => result = Raise("AttributeError")
           /\ (i > 0 /\ ~HasBadCover(ls[i])) => result = Ret(BaseAltitude(ls[i]))
           /\ (\A k \in 1..Len(ls) : ~HasCeilingCover(ls[k]) /\ ~HasBadCover(ls[k]))
                  => result = Ret(None)

\* a broken layer without base was skipped and the overcast layer above it returned
C4_Witness ==
    /\ CeilingDone
    /\ call.args[1] = <<[cover |-> StrV(BKN), base |-> None],
                        [cover |-> StrV(OVC), base |-> IntV(800)]>>
    /\ result = Ret(IntV(800))

\* C5: the ceiling returned is the lowest base altitude among all layers whose
\* cover is BKN, OVC or VV, in any order of the bases.
C5_LowestCeiling ==
    (CeilingDone /\ result.st = "returned") =>
        LET ls == call.args[1]
            bases == {BaseAltitude(ls[k]).v : k \in {j \in 1..Len(ls) : UsableCeiling(ls[j])}}
        IN result.val = IF bases = {} THEN None
                        ELSE IntV(CHOOSE b \in bases : \A x \in bases : b <= x)

(***************************************************************************)
(* Claims about parse_visibility (SpecVisibility).                         *)
(***************************************************************************)
VisibilityDone == call.op = "parse_visibility" /\ result # Pending

\* the digits and points of a string, in their order
IsDigitOrPoint(c) == IsDigit(c) \/ c = "."
Skeleton(s) == SelectSeq(s, IsDigitOrPoint)

\* s is prefix \o n \o suffix for a number n
Decorated(s, prefix, suffix) ==
    /\ Len(s) > Len(prefix) + Len(suffix)
    /\ SubSeq(s, 1, Len(prefix)) = prefix
    /\ SubSeq(s, Len(s) - Len(suffix) + 1, Len(s)) = suffix
    /\ IsFloatLiteral(SubSeq(s, Len(prefix) + 1, Len(s) - Len(suffix)))

WeatherDone == call.op = "decode_weather_codes" /\ result # Pending

DescriptorCodes == {CodeOf(descriptors[i]) : i \in 1..Len(descriptors)}
PhenomenonCodes == {CodeOf(phenomena[i]) : i \in 1..Len(phenomena)}
TextIn(table, code) == TextOf(table[CHOOSE i \in 1..Len(table) : CodeOf(table[i]) = code])

\* the j-th two-letter group of s from position start on (<<>> past the end)
Pair(s, start, j) ==
    IF start + 2 * j - 1 <= Len(s) THEN SubSeq(s, start + 2 * j - 2, start + 2 * j - 1)
    ELSE <<>>

\* the words the claim lists for the token s: intensity, descriptor, phenomena
ClaimedWords(s) ==
    LET sign == IF s # <<>> /\ s[1] \in {"-", "+"} THEN 1 ELSE 0
        word == IF sign = 0 THEN <<>> ELSE IF s[1] = "-" THEN <<"Light">> ELSE <<"Heavy">>
        hasDesc == Pair(s, sign + 1, 1) \in DescriptorCodes
        desc == IF hasDesc THEN <<TextIn(descriptors, Pair(s, sign + 1, 1))>> ELSE <<>>
        start == sign + 1 + (IF hasDesc THEN 2 ELSE 0)
        count == CHOOSE k \in 0..Len(s) :
                    /\ \A j \in 1..k : Pair(s, start, j) \in PhenomenonCodes
                    /\ Pair(s, start, k + 1) \notin PhenomenonCodes
    IN word \o desc \o [j \in 1..count |-> TextIn(phenomena, Pair(s, start, j))]

RECURSIVE JoinWords(_)
JoinWords(ws) ==
    IF ws = <<>> THEN ""
    ELSE IF Len(ws) = 1 THEN ws[1]
    ELSE ws[1] \o " " \o JoinWords(Tail(ws))

\* C10: for every coded token the result is the space-joined sequence of the
\* intensity word (Light for "-", Heavy for "+"), the text of at most one
\* leading descriptor, and the texts of the phenomenon codes consumed left to
\* right until no table entry is a prefix of the remainder; "+TSRA" gives
\* "Heavy Thunderstorm Rain", "-RA" "Light Rain", "BR" "Mist".  (A token in which
\* nothing decodes is the fallback case of C11.)
C10_DecodedPhrase ==
    (WeatherDone /\ call.args[1].t = "str") =>
        LET s == call.args[1].v
            words == ClaimedWords(s)
        IN /\ result.st = "returned"
           /\ words # <<>> => Flat(result.val.v) = JoinWords(words)
           /\ s = <<"+", "T", "S", "R", "A">> => Flat(result.val.v) = "Heavy Thunderstorm Rain"
           /\ s = <<"-", "R", "A">> => Flat(result.val.v) = "Light Rain"
           /\ s = <<"B", "R">> => Flat(result.val.v) = "Mist"
           /\ s = <<"T", "S", "T", "S">> => Flat(result.val.v) = "Thunderstorm"

\* "+TSRA" has been decoded: intensity, one descriptor and one phenomenon
C10_Witness ==
    /\ WeatherDone
    /\ call.args[1] = StrV(<<"+", "T", "S", "R", "A">>)
    /\ result.st = "returned"
    /\ Flat(result.val.v) = "Heavy Thunderstorm Rain"

(***************************************************************************)
(* Claims about the enrichment of fetch_metar (Spec).                      *)
(***************************************************************************)
MetarDone == call.op = "fetch_metar" /\ result # Pending
HasData == call.args[1].kind = "data"
Raw == call.args[1].metar
ReturnedRecord == result.st = "returned" /\ result.val.t = "dict"
Enriched == result.val.v

SourceCategoryGiven == "flightCategory" \in DOMAIN Raw /\ Truthy(Raw.flightCategory)

\* a raw layer with a BKN, OVC or VV cover and a numeric base below limit
LowCeilingLayer(layer, limit) ==
    /\ HasCeilingCover(layer)
    /\ "base" \in DOMAIN layer
    /\ layer.base.t = "int"
    /\ layer.base.v < limit

\* C1: when the source gave no flight category, the category is computed from the
\* parsed visibility and the ceiling of the observation's cloud layers: visib "10"
\* with clouds [{cover: OVC, base: 800}] gets IFR, and a BKN/OVC/VV layer with a
\* numeric base below 1000 ft never yields VFR or MVFR.
C1_CeilingDecidesCategory ==
    (MetarDone /\ HasData /\ ReturnedRecord /\ ~SourceCategoryGiven
              /\ "clouds" \in DOMAIN Raw /\ "visib" \in DOMAIN Raw) =>
        LET layers == Raw.clouds.v
            category == Flat(Enriched.flightCategory.v)
        IN /\ (Raw.visib = StrV(Chars10)
                  /\ layers = <<[cover |-> StrV(OVC), base |-> IntV(800)]>>)
                 => category = "IFR"
           /\ (\E i \in 1..Len(layers) : LowCeilingLayer(layers[i], 1000))
                 => category \notin {"VFR", "MVFR"}

\* C3: the enrichment never aborts: for every raw record fetch_metar returns an
\* enriched record and no exception escapes to the caller.
C3_EnrichmentNeverAborts ==
    (MetarDone /\ HasData) => ReturnedRecord

\* C6: a non-empty flightCategory of the source is left unchanged and the
\* classifier is not called; when the field is missing or empty the enriched
\* record's flightCategory is one of VFR, MVFR, IFR, LIFR.
C6_CategoryOnlyWhenOmitted ==
    (MetarDone /\ HasData) =>
        /\ SourceCategoryGiven => "calculate_flight_category" \notin called
        /\ (SourceCategoryGiven /\ ReturnedRecord)
              => Enriched.flightCategory = Raw.flightCategory
        /\ (~SourceCategoryGiven /\ ReturnedRecord)
              => /\ "calculate_flight_category" \in called
                 /\ Flat(Enriched.flightCategory.v) \in {"VFR", "MVFR", "IFR", "LIFR"}

\* the source's MVFR was kept although the visibility is null: no classifier call
C6_Witness ==
    /\ MetarDone /\ HasData /\ ReturnedRecord
    /\ "visib" \in DOMAIN Raw /\ Raw.visib = None
    /\ SourceCategoryGiven
    /\ Flat(Enriched.flightCategory.v) = "MVFR"
    /\ "calculate_flight_category" \notin called

Abs(n) == IF n < 0 THEN -n ELSE n

\* x (a number with at most 2 decimals), in hundredths
Hundredths(x) == IF x.t = "int" THEN 100 * x.v ELSE x.m * Pow10(2 - x.e)

\* x is v * 0.02953 rounded to 2 decimals: within half a hundredth of the product
IsInHgOf(x, v) ==
    /\ x.t = "float" /\ x.e <= 2
    /\ 2 * Abs(Hundredths(x) * Pow10(v.e + 3) - v.m * 2953) <= Pow10(v.e + 3)

\* x is v / 0.02953 rounded to the nearest integer
IsHpaOf(x, v) ==
    /\ x.t = "int"
    /\ 2 * Abs(x.v * 2953 * Pow10(v.e) - v.m * 100000) <= 2953 * Pow10(v.e)

AltimeterGiven == "altim" \in DOMAIN Raw /\ IsNumber(Raw.altim)

\* C7: for every altimeter value v: if v > 60, altimHpa = v and altimInHg is
\* v * 0.02953 rounded to 2 decimals; if v <= 60 (60 included), altimInHg is v
\* rounded to 2 decimals and altimHpa is v / 0.02953 rounded to the nearest integer.
C7_AltimeterThreshold ==
    (MetarDone /\ HasData /\ ReturnedRecord /\ AltimeterGiven) =>
        LET v == ToFloat(Raw.altim)
            above == v.m > 60 * Pow10(v.e)
        IN /\ {"altimHpa", "altimInHg"} \subseteq DOMAIN Enriched
           /\ above => /\ Enriched.altimHpa = v
                       /\ IsInHgOf(Enriched.altimInHg, v)
           /\ ~above => /\ Enriched.altimInHg = v
                        /\ IsHpaOf(Enriched.altimHpa, v)

\* the threshold itself, 60, was taken as inches of mercury: 60 / 0.02953 = 2031.8
C7_Witness ==
    /\ MetarDone /\ HasData /\ ReturnedRecord
    /\ "altim" \in DOMAIN Raw /\ Raw.altim = IntV(60)
    /\ Enriched.altimInHg = FloatV(60, 0)
    /\ Enriched.altimHpa = IntV(2032)

\* a reading the code can use: _to_float gives a number
Usable(field) == field \in DOMAIN Raw /\ to_float(Raw[field]) # None

\* C8: a usable altimeter reading alone determines altimHpa and altimInHg,
\* whatever the pressure field holds; without one, a usable pressure p gives
\* altimHpa = p and altimInHg = p * 0.02953 rounded to 2 decimals; with neither,
\* neither altimHpa nor altimInHg is set.
C8_PressureSource ==
    (MetarDone /\ HasData /\ ReturnedRecord) =>
        /\ Usable("altim") =>
              LET v == to_float(Raw.altim)
              IN /\ {"altimHpa", "altimInHg"} \subseteq DOMAIN Enriched
                 /\ v.m > 60 * Pow10(v.e)
                       => Enriched.altimHpa = v /\ IsInHgOf(Enriched.altimInHg, v)
                 /\ v.m <= 60 * Pow10(v.e)
                       => Enriched.altimInHg = v /\ IsHpaOf(Enriched.altimHpa, v)
        /\ (~Usable("altim") /\ Usable("press")) =>
              LET q == to_float(Raw.press)
              IN /\ {"altimHpa", "altimInHg"} \subseteq DOMAIN Enriched
                 /\ Enriched.altimHpa = q
                 /\ IsInHgOf(Enriched.altimInHg, q)
        /\ (~Usable("altim") /\ ~Usable("press")) =>
              /\ "altimHpa" \notin DOMAIN Enriched
              /\ "altimInHg" \notin DOMAIN Enriched

\* an unparseable altimeter with a pressure of 1013.2 hPa: the pressure was used
C8_Witness ==
    /\ MetarDone /\ HasData /\ ReturnedRecord
    /\ "altim" \in DOMAIN Raw /\ Raw.altim = StrV(<<"M">>)
    /\ "press" \in DOMAIN Raw /\ Raw.press = FloatV(10132, 1)
    /\ Enriched.altimHpa = FloatV(10132, 1)
    /\ Enriched.altimInHg = FloatV(2992, 2)

(***************************************************************************)
(* Claims about the fallback of decode_weather_codes (SpecWeather).        *)
(***************************************************************************)
\* the token without its leading intensity marker
Unmarked(s) == IF s # <<>> /\ s[1] \in {"-", "+"} THEN Tail(s) ELSE s

\* no descriptor code and no phenomenon code is matched in the token s
NothingMatches(s) ==
    /\ Pair(Unmarked(s), 1, 1) \notin DescriptorCodes
    /\ Pair(Unmarked(s), 1, 1) \notin PhenomenonCodes

\* C11: for every non-empty weather code in which neither a descriptor nor a
\* phenomenon code is matched, decode_weather_codes returns the input string
\* unchanged, also when it starts with an intensity marker: "+X" comes back as
\* "+X" and "-X" as "-X".
C11_FallbackUnchanged ==
    (WeatherDone /\ call.args[1].t = "str" /\ call.args[1].v # <<>>
                 /\ NothingMatches(call.args[1].v)) =>
        result = Ret(call.args[1])

(***************************************************************************)
(* Specification of decode_cloud_layers: a record with a clouds array of   *)
(* at most MaxLayers sub-records, or with an overall cover code and a      *)
(* ceiling.                                                                *)
(***************************************************************************)
SKC == <<"S", "K", "C">>
CLR == <<"C", "L", "R">>
NSC == <<"N", "S", "C">>
XX == <<"X", "X">>

\* the sub-records: known and unknown covers, with and without base and type;
\* the overall covers and ceilings of a record without sub-records
CloudRecords ==
    LET CloudEntries ==
            {[cover |-> StrV(FEW), base |-> IntV(800)],
             [cover |-> StrV(SCT), base |-> IntV(4500), type |-> StrV(<<"C", "B">>)],
             [cover |-> StrV(SCT)],
             [cover |-> StrV(BKN), base |-> IntV(12000)],
             [cover |-> StrV(BKN), base |-> FloatV(15005, 1), type |-> StrV(<<>>)],
             [cover |-> StrV(OVC), base |-> None],
             [cover |-> StrV(VV), base |-> IntV(200)],
             [cover |-> StrV(SKC)],
             [cover |-> StrV(CLR), base |-> None],
             [cover |-> StrV(NSC)],
             [cover |-> StrV(XX), base |-> IntV(12000), type |-> StrV(<<"Z", "Z">>)],
             [cover |-> StrV(XX)],
             [base |-> IntV(800)]}
        OverallCovers ==
            {Absent, None, StrV(<<>>), StrV(CLR), StrV(SCT), StrV(OVC), StrV(XX)}
        OverallCeilings ==
            {Absent, None, IntV(0), IntV(800), IntV(12500), StrV(<<"8", "0", "0">>)}
    IN {MkDict([clouds |-> ListV(ls), cover |-> c]) :
            ls \in SeqsUpTo(CloudEntries, MaxLayers), c \in {Absent, StrV(OVC), StrV(XX)}}
          \cup {MkDict([clouds |-> a, cover |-> c, ceiling |-> g]) :
                    a \in {Absent, None, ListV(<<>>)}, c \in OverallCovers,
                    g \in OverallCeilings}

InitClouds ==
    /\ call \in {[op |-> "decode_cloud_layers", args |-> <<d>>] : d \in CloudRecords}
    /\ result = Pending
    /\ called = {}
    /\ InitGlobals

DecodeClouds ==
    /\ call.op = "decode_cloud_layers"
    /\ result = Pending
    /\ result' = decode_cloud_layers(call.args[1])
    /\ called' = {call.op}
    /\ UNCHANGED <<call, weather_cache, mqtt_connected, cycles, cache_file>>

NextClouds == DecodeClouds

SpecClouds == InitClouds /\ [][NextClouds]_vars

(***************************************************************************)
(* Claims about decode_cloud_layers (SpecClouds).                          *)
(***************************************************************************)
CloudsDone == call.op = "decode_cloud_layers" /\ result # Pending
CloudRecord == call.args[1]
LayersOut == result.val

\* the per-layer sub-records of the record (none when the array is absent or null)
SubRecords ==
    IF "clouds" \in DOMAIN CloudRecord /\ CloudRecord.clouds.t = "list"
    THEN CloudRecord.clouds.v ELSE <<>>

\* a non-empty code that the cover table does not hold
UnknownCover(c) == c.t = "str" /\ c.v # <<>> /\ ~InTable(cover_decode, c)

\* the output holds a layer whose cover and cover_text are both the code c
PassedThrough(c) ==
    \E i \in 1..Len(LayersOut) :
        /\ {"cover", "cover_text"} \subseteq DOMAIN LayersOut[i]
        /\ LayersOut[i].cover = c
        /\ LayersOut[i].cover_text = c

\* C12: an unknown sky-cover code is never dropped: whether it arrives in a
\* per-layer sub-record or as the single overall cover code of the observation,
\* the output contains a layer whose cover and cover_text both equal the code.
C12_UnknownCoverKept ==
    (CloudsDone /\ result.st = "returned") =>
        /\ \A i \in 1..Len(SubRecords) :
              ("cover" \in DOMAIN SubRecords[i] /\ UnknownCover(SubRecords[i].cover))
                  => PassedThrough(SubRecords[i].cover)
        /\ (SubRecords = <<>> /\ "cover" \in DOMAIN CloudRecord
                              /\ UnknownCover(CloudRecord.cover))
              => PassedThrough(CloudRecord.cover)

CoverageCodes == {SKC, CLR, NSC, FEW, BKN, OVC, VV}

\* C13: in every returned layer the coverage_detail field is present exactly
\* when the layer's cover code is one of SKC, CLR, NSC, FEW, BKN, OVC, VV; for
\* SCT and for unknown codes the field is absent from the layer.
C13_CoverageIffKnown ==
    (CloudsDone /\ result.st = "returned") =>
        \A i \in 1..Len(LayersOut) :
            "coverage_detail" \in DOMAIN LayersOut[i]
                <=> /\ "cover" \in DOMAIN LayersOut[i]
                    /\ LayersOut[i].cover.t = "str"
                    /\ LayersOut[i].cover.v \in CoverageCodes

(***************************************************************************)
(* Specification of convert_to_local_time: every string of at most         *)
(* MaxTimeLen characters of 0 1 7 T - and the blank, timestamp strings of  *)
(* every form, numbers and values of other types.                          *)
(***************************************************************************)
MaxTimeLen == 3

TimeInputs ==
    LET TimeChars == {"0", "1", "7", "T", "-", " "}
        TimeForms == {"digits", "bigdigits", "decimal", "iso", "ymd", "badT", "garbage"}
        Epochs == {0, 59, 60, 1700000000, 1700003600}
    IN {StrV(s) : s \in SeqsUpTo(TimeChars, MaxTimeLen)}
          \cup {TimeStr(f, e) : f \in TimeForms, e \in Epochs}
          \cup {IntV(e) : e \in Epochs \cup {-1}}
          \cup {None, FloatV(15, 1), FloatV(0, 0), BigInt("1000000000000000000"),
                ListV(<<>>), ListV(<<IntV(1)>>)}

InitTime ==
    /\ call \in {[op |-> "convert_to_local_time", args |-> <<x>>] : x \in TimeInputs}
    /\ result = Pending
    /\ called = {}
    /\ InitGlobals

ConvertTime ==
    /\ call.op = "convert_to_local_time"
    /\ result = Pending
    /\ result' = Ret(DictV(convert_to_local_time(call.args[1])))
    /\ called' = {call.op}
    /\ UNCHANGED <<call, weather_cache, mqtt_connected, cycles, cache_file>>

NextTime == ConvertTime

SpecTime == InitTime /\ [][NextTime]_vars

(***************************************************************************)
(* Claims about convert_to_local_time (SpecTime).                          *)
(***************************************************************************)
TimeDone == call.op = "convert_to_local_time" /\ result # Pending
TimeInput == call.args[1]
Slots == result.val.v

\* the characters spell an epoch number: blanks around an optional sign and digits
SpellsEpoch(s) ==
    \E i, j \in 1..Len(s) :
        /\ i <= j
        /\ \A k \in 1..Len(s) : (k < i \/ k > j) => s[k] = " "
        /\ \A k \in (i + 1)..j : IsDigit(s[k])
        /\ IsDigit(s[i]) \/ (s[i] \in {"-", "+"} /\ i < j)

\* the input is not empty and none of the three parses takes it
ParseFails(x) ==
    \/ x.t = "bigint"
    \/ x.t = "list" /\ x.v # <<>>
    \/ x.t = "timestr" /\ x.form \in {"bigdigits", "decimal", "badT", "garbage"}
    \/ x.t = "str" /\ x.v # <<>> /\ ~SpellsEpoch(x.v)

\* C20: convert_to_local_time never raises: for every non-empty input whose
\* parse is exhausted or fails (no epoch number, no ISO-8601 with "T", no
\* "YYYY-MM-DD HH:MM:SS") the utc, local and local_short slots of the result
\* all hold the input rendered as a string.
C20_FailedParsePassesThrough ==
    TimeDone =>
        /\ result.st = "returned"
        /\ {"utc", "local", "local_short"} \subseteq DOMAIN Slots
        /\ ParseFails(TimeInput) =>
              /\ PyStr(Slots.utc) = PyStr(TimeInput)
              /\ PyStr(Slots.local) = PyStr(TimeInput)
              /\ PyStr(Slots.local_short) = PyStr(TimeInput)
              /\ \A k \in {"utc", "local", "local_short"} : Slots[k].t \in {"str", "timestr"}

\* a string with a T that is no ISO-8601 date came back in the three slots
C20_Witness ==
    /\ TimeDone
    /\ TimeInput = TimeStr("badT", 0)
    /\ Slots = [utc |-> TimeInput, local |-> TimeInput, local_short |-> TimeInput]

(***************************************************************************)
(* decode_taf_forecast(taf_data): the helper deg_to_cardinal               *)
(***************************************************************************)
dirs ==
    <<"N", "NNE", "NE", "ENE", "E", "ESE", "SE", "SSE",
      "S", "SSW", "SW", "WSW", "W", "WNW", "NW", "NNW">>

\* the variant that truncates to the sector instead of rounding to the point
deg_to_cardinal_truncated(deg) ==
    IF deg = None THEN None
    ELSE IF ~IsNumber(deg) THEN None
    ELSE LET x == ToFloat(deg)
             r == x.m % (360 * Pow10(x.e))
             ix == ((4 * r) \div (90 * Pow10(x.e))) % 16
         IN StrV(<<dirs[ix + 1]>>)

\* ix = int((deg % 360) / 22.5 + 0.5) % 16, computed on deg = m / 10^e as
\* (4r + 45 * 10^e) div (90 * 10^e) with r = m mod (360 * 10^e).  On a value that
\* is no number the % raises TypeError, which the helper catches: None.
deg_to_cardinal(deg) ==
    IF deg = None THEN None
    ELSE IF ~IsNumber(deg) THEN None
    ELSE LET x == ToFloat(deg)
             r == x.m % (360 * Pow10(x.e))
             ix == ((4 * r + 45 * Pow10(x.e)) \div (90 * Pow10(x.e))) % 16
         IN StrV(<<dirs[ix + 1]>>)

(***************************************************************************)
(* Specification of deg_to_cardinal over the integer directions 0..MaxDeg  *)
(* and a few other values.                                                 *)
(***************************************************************************)
MaxDeg == 360

Directions ==
    {IntV(d) : d \in 0..MaxDeg}
        \cup {None, IntV(-90), IntV(720), FloatV(1125, 2), FloatV(34875, 2),
              FloatV(3599, 1), StrV(<<"V", "R", "B">>)}

InitCardinal ==
    /\ call \in {[op |-> "deg_to_cardinal", args |-> <<d>>] : d \in Directions}
    /\ result = Pending
    /\ called = {}
    /\ InitGlobals

Cardinal ==
    /\ call.op = "deg_to_cardinal"
    /\ result = Pending
    /\ result' = Ret(deg_to_cardinal(call.args[1]))
    /\ called' = {call.op}
    /\ UNCHANGED <<call, weather_cache, mqtt_connected, cycles, cache_file>>

NextCardinal == Cardinal

SpecCardinal == InitCardinal /\ [][NextCardinal]_vars

(***************************************************************************)
(* Claims about deg_to_cardinal (SpecCardinal).                            *)
(***************************************************************************)
CardinalDone == call.op = "deg_to_cardinal" /\ result # Pending

\* round(d / 22.5) of an integer d >= 0: the integer k nearest to 2d / 45
\* (4d - 90k is even and 45 is odd, so there is no tie)
NearestSector(d) == CHOOSE k \in 0..(d + 1) : 4 * d - 90 * k < 45 /\ 90 * k - 4 * d < 45

Compass(k) == dirs[(k % 16) + 1]

\* C18: for every integer direction deg in 0..360, deg_to_cardinal(deg) is the
\* entry at index round(deg / 22.5) mod 16 of the 16-point compass list; 0 is N,
\* 90 E, 180 S, 270 W and 360 wraps to N.
C18_CompassPoint ==
    (CardinalDone /\ call.args[1].t = "int" /\ call.args[1].v >= 0) =>
        LET d == call.args[1].v
        IN /\ result = Ret(StrV(<<Compass(NearestSector(d))>>))
           /\ d \in {0, 360} => result = Ret(StrV(<<"N">>))
           /\ d = 90 => result = Ret(StrV(<<"E">>))
           /\ d = 180 => result = Ret(StrV(<<"S">>))
           /\ d = 270 => result = Ret(StrV(<<"W">>))

\* 360 degrees has been mapped, and wrapped to N
C18_Witness ==
    /\ CardinalDone
    /\ call.args[1] = IntV(360)
    /\ result = Ret(StrV(<<"N">>))

(***************************************************************************)
(* decode_taf_forecast(taf_data)                                           *)
(* A period is a dict; the decoded period is built field by field.  A step *)
(* that raises leaves the loop: the outer handler (line 1304) logs it and  *)
(* the periods decoded so far are returned.                                *)
(***************************************************************************)
\* the two characters of the texts that are not ASCII, by their code points
DegreeSign == "\\u00B0"
EnDash == "\\u2013"

\* period.get('fcstChange') or period.get('fcstType', 'Base')
PeriodType(period) ==
    IF Truthy(Get(period, "fcstChange", None)) THEN period.fcstChange
    ELSE Get(period, "fcstType", StrV(<<"Base">>))

\* the decoded period as the loop first creates it
NewPeriod(period) ==
    [raw |-> Get(period, "raw", StrV(<<>>)), type |-> PeriodType(period),
     wind |-> None, visibility |-> None, weather |-> None, clouds |-> ListV(<<>>),
     valid_from |-> None, valid_to |-> None]

\* one bound of the validity window: taken from key, else from alternative
PeriodBound(period, d, key, alternative, slot) ==
    LET source == IF key \in DOMAIN period THEN <<period[key]>>
                  ELSE IF alternative \in DOMAIN period THEN <<period[alternative]>>
                  ELSE <<>>
    IN IF source = <<>> THEN d
       ELSE LET times == convert_to_local_time(source[1])
            IN Put(Put(d, slot, times.local_short), slot \o "_full", times.local)

PeriodTimes(period, d) ==
    PeriodBound(period,
                PeriodBound(period, d, "timeFrom", "validTimeFrom", "valid_from"),
                "timeTo", "validTimeTo", "valid_to")

\* wdir in (None, 0): equality, so 0.0 counts as 0
NoDirection(wdir) == wdir = None \/ (IsNumber(wdir) /\ ToFloat(wdir).m = 0)

WindText(wdir, wspd, wgst) ==
    IF wspd = None THEN None
    ELSE LET card == deg_to_cardinal(wdir)
             txt == IF NoDirection(wdir) THEN <<"VRB at ", PyStr(wspd), " kt">>
                    ELSE IF Truthy(card)
                    THEN <<PyStr(wdir), DegreeSign, " (", Flat(card.v), ") at ",
                           PyStr(wspd), " kt">>
                    ELSE <<PyStr(wdir), DegreeSign, " at ", PyStr(wspd), " kt">>
             gust == IF Truthy(wgst) THEN <<" gusting ", PyStr(wgst), " kt">> ELSE <<>>
         IN StrV(txt \o gust)

PeriodWind(period, d) ==
    IF "wdir" \in DOMAIN period /\ "wspd" \in DOMAIN period
    THEN Put(Put(d, "wind", WindText(period.wdir, period.wspd, Get(period, "wgst", None))),
             "wind_cardinal", deg_to_cardinal(period.wdir))
    ELSE d

\* str(vis_val).strip()
VisText(vis_val) == IF vis_val.t = "str" THEN Strip(vis_val.v) ELSE <<PyStr(vis_val)>>

PeriodVisibility(period, d) ==
    IF "visib" \in DOMAIN period /\ period.visib # None /\ VisText(period.visib) # <<>>
    THEN Put(d, "visibility", StrV(VisText(period.visib) \o <<" SM">>))
    ELSE d

\* Ret(d) or Raise: decode_weather_codes raises on a code that is no str
PeriodWeather(period, d) ==
    IF "wxString" \in DOMAIN period /\ Truthy(period.wxString)
    THEN LET r == decode_weather_codes(period.wxString)
         IN IF r.st = "raised" THEN r
            ELSE Ret(Put(Put(d, "weather", r.val), "weather_raw", period.wxString))
    ELSE Ret(d)

\* Ret(d) or Raise: the loop over a value that is no list raises TypeError
PeriodClouds(period, d) ==
    IF "clouds" \in DOMAIN period /\ Truthy(period.clouds)
    THEN IF period.clouds.t # "list" THEN Raise("TypeError")
         ELSE LET r == decode_cloud_layers([clouds |-> period.clouds])
              IN IF r.st = "raised" THEN r ELSE Ret(Put(d, "clouds", ListV(r.val)))
    ELSE Ret(d)

PeriodCategory(period, d) ==
    IF "flightCategory" \in DOMAIN period
    THEN Put(d, "flight_category", period.flightCategory)
    ELSE d

\* the text of one cloud layer in the summary, or the TypeError of "+=" or of
\* the join on a text that is no str
CloudSummary(cl) ==
    LET text == IF Truthy(Get(cl, "cover_text", None)) THEN cl.cover_text
                ELSE Get(cl, "cover", None)
        altitude == IF Truthy(Get(cl, "altitude_agl", None))
                    THEN <<" @ ", PyStr(cl.altitude_agl)>> ELSE <<>>
        type == IF Truthy(Get(cl, "cloud_type", None))
                THEN <<" (", PyStr(cl.cloud_type), ")">> ELSE <<>>
    IN IF text.t # "str" THEN Raise("TypeError")
       ELSE Ret(StrV(text.v \o altitude \o type))

\* sep.join(texts) as a sequence of atoms
RECURSIVE Join(_, _)
Join(texts, sep) ==
    IF texts = <<>> THEN <<>>
    ELSE IF Len(texts) = 1 THEN texts[1].v
    ELSE texts[1].v \o <<sep>> \o Join(Tail(texts), sep)

\* the parts of the summary, in the order the code appends them; layers is the
\* slice of the decoded cloud layers that is summarised
SummaryParts(d, layers) ==
    LET window == IF Truthy(d.valid_from) /\ Truthy(d.valid_to)
                  THEN <<StrV(<<PyStr(d.valid_from), EnDash, PyStr(d.valid_to)>>)>>
                  ELSE <<>>
        type == IF Truthy(d.type) THEN <<d.type>> ELSE <<>>
        wind == IF Truthy(d.wind) THEN <<StrV(<<"Wind ">> \o d.wind.v)>> ELSE <<>>
        visibility == IF Truthy(d.visibility)
                      THEN <<StrV(<<"Vis ">> \o d.visibility.v)>> ELSE <<>>
        weather == IF Truthy(d.weather) THEN <<d.weather>> ELSE <<>>
        summaries == [i \in 1..Len(layers) |-> CloudSummary(layers[i])]
        clouds == IF layers = <<>> THEN <<>>
                  ELSE <<StrV(<<"Clouds: ">>
                              \o Join([i \in 1..Len(layers) |-> summaries[i].val], ", "))>>
    IN IF \E i \in 1..Len(layers) : summaries[i].st = "raised" THEN Raise("TypeError")
       ELSE Ret(window \o type \o wind \o visibility \o weather \o clouds)

\* the summary step on the given slice of layers: a failure is caught (line
\* 1299) and the period stays without a summary
Summarize(d, layers) ==
    LET parts == SummaryParts(d, layers)
    IN IF parts.st = "raised" THEN d
       ELSE LET kept == SelectSeq(parts.val, Truthy)
            IN IF \E i \in 1..Len(kept) : kept[i].t # "str" THEN d
               ELSE Put(d, "summary", StrV(Join(kept, "; ")))

\* the variant that summarises every cloud layer
PeriodSummaryAllLayers(d) == Summarize(d, d.clouds.v)

\* decoded_period['clouds'][:2]
PeriodSummary(d) ==
    Summarize(d, SubSeq(d.clouds.v, 1, IF Len(d.clouds.v) < 2 THEN Len(d.clouds.v) ELSE 2))

\* one pass of the loop: Ret(decoded period) or the exception that leaves the loop
DecodePeriod(period) ==
    LET d1 == PeriodVisibility(period, PeriodWind(period,
                  PeriodTimes(period, NewPeriod(period))))
        r2 == PeriodWeather(period, d1)
        r3 == IF r2.st = "raised" THEN r2 ELSE PeriodClouds(period, r2.val)
    IN IF r3.st = "raised" THEN r3
       ELSE Ret(PeriodSummary(PeriodCategory(period, r3.val)))

\* the loop over the periods: the decoded periods up to the first that raises
RECURSIVE DecodePeriods(_)
DecodePeriods(periods) ==
    IF periods = <<>> THEN <<>>
    ELSE LET r == DecodePeriod(Head(periods))
         IN IF r.st = "raised" THEN <<>>
            ELSE <<r.val>> \o DecodePeriods(Tail(periods))

\* taf_data.get('fcsts') or taf_data.get('forecast', []); a value that is no
\* list raises in len() or in the loop, before any period is decoded
decode_taf_forecast(taf_data) ==
    IF "forecast" \notin DOMAIN taf_data /\ "fcsts" \notin DOMAIN taf_data THEN <<>>
    ELSE LET periods == IF Truthy(Get(taf_data, "fcsts", None)) THEN taf_data.fcsts
                        ELSE Get(taf_data, "forecast", ListV(<<>>))
         IN IF ~Truthy(periods) THEN <<>>
            ELSE IF periods.t # "list" THEN <<>>
            ELSE DecodePeriods(periods.v)

(***************************************************************************)
(* Specification of decode_taf_forecast: TAF records of one period that    *)
(* vary the fields of one concern at a time, and records of at most        *)
(* MaxPeriods periods drawn from a few.                                    *)
(***************************************************************************)
MaxPeriods == 3
MaxTafLayers == 3

NoPeriodFields ==
    [raw |-> Absent, fcstChange |-> Absent, fcstType |-> Absent,
     timeFrom |-> Absent, validTimeFrom |-> Absent, timeTo |-> Absent,
     validTimeTo |-> Absent, wdir |-> Absent, wspd |-> Absent, wgst |-> Absent,
     visib |-> Absent, wxString |-> Absent, clouds |-> Absent, flightCategory |-> Absent]

\* periods that vary the validity window, the type, the wind, the visibility
\* and weather, or the clouds (at most MaxTafLayers layers)
RawPeriods ==
    LET RA == <<"-", "R", "A">>
        TafTimes == {Absent, None, IntV(0), IntV(1700000000), TimeStr("iso", 1700003600),
                     TimeStr("garbage", 0)}
        TafChanges == {Absent, None, StrV(<<>>), StrV(<<"TEMPO">>), IntV(5)}
        TafTypes == {Absent, None, StrV(<<"FROM">>)}
        TafDirections == {Absent, None, IntV(0), FloatV(0, 0), IntV(90), IntV(350),
                          IntV(360), FloatV(1125, 2), StrV(<<"V", "R", "B">>)}
        TafSpeeds == {Absent, None, IntV(0), IntV(5), FloatV(125, 1)}
        TafGusts == {Absent, None, IntV(0), IntV(20)}
        TafVisibilities == {Absent, None, StrV(<<>>), StrV(<<" ">>), StrV(<<"6", "+">>),
                            StrV(<<" ", "3">>), IntV(10), FloatV(5, 1)}
        TafWeather == {Absent, None, StrV(<<>>), StrV(RA), StrV(XX), IntV(5)}
        TafCloudEntries ==
            {[cover |-> StrV(FEW), base |-> IntV(1000), type |-> StrV(<<"C", "B">>)],
             [cover |-> StrV(XX), base |-> FloatV(25005, 1)],
             [cover |-> StrV(OVC)],
             [cover |-> StrV(SCT), base |-> None],
             [base |-> IntV(800)]}
        TafClouds ==
            {Absent, None, IntV(5)}
                \cup {ListV(ls) : ls \in SeqsUpTo(TafCloudEntries, MaxTafLayers)}
    IN {MkDict([NoPeriodFields EXCEPT !.timeFrom = a, !.timeTo = b,
                                      !.validTimeFrom = c, !.validTimeTo = c]) :
            a \in TafTimes, b \in TafTimes, c \in {Absent, TimeStr("ymd", 1700000000)}}
          \cup {MkDict([NoPeriodFields EXCEPT !.fcstChange = a, !.fcstType = b,
                                              !.flightCategory = c]) :
                    a \in TafChanges, b \in TafTypes, c \in {Absent, StrV(MVFRChars)}}
          \cup {MkDict([NoPeriodFields EXCEPT !.wdir = a, !.wspd = b, !.wgst = c]) :
                    a \in TafDirections, b \in TafSpeeds, c \in TafGusts}
          \cup {MkDict([NoPeriodFields EXCEPT !.visib = a, !.wxString = b,
                                              !.wspd = IntV(5), !.wdir = IntV(270)]) :
                    a \in TafVisibilities, b \in TafWeather}
          \cup {MkDict([NoPeriodFields EXCEPT !.clouds = a, !.wxString = b]) :
                    a \in TafClouds, b \in {Absent, StrV(RA)}}

\* a period with every field, and periods told apart by their raw text
FullPeriod(raw) ==
    [raw |-> StrV(<<raw>>), fcstChange |-> StrV(<<"TEMPO">>),
     timeFrom |-> IntV(1700000000), timeTo |-> IntV(1700003600),
     wdir |-> IntV(270), wspd |-> IntV(10), wgst |-> IntV(20), visib |-> StrV(<<"6", "+">>),
     wxString |-> StrV(<<"-", "R", "A">>),
     clouds |-> ListV(<<[cover |-> StrV(BKN), base |-> IntV(800)]>>)]

FewPeriods ==
    {FullPeriod("A"), FullPeriod("B"),
     [raw |-> StrV(<<"C">>), visib |-> StrV(<<"3">>), wxString |-> IntV(5)],
     [raw |-> StrV(<<"D">>), wdir |-> IntV(0), wspd |-> IntV(5), clouds |-> IntV(5)]}

TafRecords ==
    {[fcsts |-> ListV(<<p>>)] : p \in RawPeriods}
      \cup {[fcsts |-> ListV(ps)] : ps \in SeqsUpTo(FewPeriods, MaxPeriods)}
      \cup {[forecast |-> ListV(ps)] : ps \in SeqsUpTo(FewPeriods, 1)}
      \cup {MkDict([fcsts |-> a, forecast |-> ListV(<<FullPeriod("A")>>)]) :
                a \in {None, ListV(<<>>), ListV(<<FullPeriod("B")>>)}}
      \cup {<<>>, [fcsts |-> None], [fcsts |-> IntV(5)], [raw |-> StrV(<<"TAF">>)]}

InitTaf ==
    /\ call \in {[op |-> "decode_taf_forecast", args |-> <<t>>] : t \in TafRecords}
    /\ result = Pending
    /\ called = {}
    /\ InitGlobals

DecodeTaf ==
    /\ call.op = "decode_taf_forecast"
    /\ result = Pending
    /\ result' = Ret(ListV(decode_taf_forecast(call.args[1])))
    /\ called' = {call.op}
    /\ UNCHANGED <<call, weather_cache, mqtt_connected, cycles, cache_file>>

NextTaf == DecodeTaf

SpecTaf == InitTaf /\ [][NextTaf]_vars

TafDone == call.op = "decode_taf_forecast" /\ result # Pending


(***************************************************************************)
(* Claims about decode_taf_forecast (SpecTaf).                             *)
(***************************************************************************)
TafRecord == call.args[1]
Decoded == result.val.v

\* the TAF's period array: fcsts, or forecast when fcsts is missing or empty
InputPeriods ==
    IF "fcsts" \in DOMAIN TafRecord /\ TafRecord.fcsts.t = "list" /\ TafRecord.fcsts.v # <<>>
    THEN TafRecord.fcsts.v
    ELSE IF "forecast" \in DOMAIN TafRecord /\ TafRecord.forecast.t = "list"
    THEN TafRecord.forecast.v
    ELSE <<>>

RawOf(period) == Get(period, "raw", StrV(<<>>))

\* C14: decode_taf_forecast returns exactly one decoded period per element of
\* the TAF's period array, in the order of appearance: the output has the length
\* of the input array and its i-th element is decoded from the i-th input
\* period, whatever the content of the other periods.
C14_OnePeriodPerElement ==
    TafDone =>
        /\ Len(Decoded) = Len(InputPeriods)
        /\ \A i \in 1..Len(Decoded) : Decoded[i].raw = RawOf(InputPeriods[i])

\* the synthesis of the weather or of the clouds of the period fails
WeatherFails(period) ==
    "wxString" \in DOMAIN period /\ Truthy(period.wxString) /\ period.wxString.t # "str"
CloudsFail(period) ==
    "clouds" \in DOMAIN period /\ Truthy(period.clouds) /\ period.clouds.t # "list"

HasVisibility(period) ==
    "visib" \in DOMAIN period /\ period.visib.t = "str" /\ Strip(period.visib.v) # <<>>
HasWind(period) ==
    {"wdir", "wspd"} \subseteq DOMAIN period /\ period.wspd # None

\* C15: the failure of synthesizing one field of a period is caught and only
\* that field is skipped: the remaining fields of the same period are still
\* produced and the period is still appended to the output.
C15_FieldFailureSkipped ==
    TafDone =>
        \A i \in 1..Len(InputPeriods) :
            (WeatherFails(InputPeriods[i]) \/ CloudsFail(InputPeriods[i])) =>
                \E j \in 1..Len(Decoded) :
                    /\ Decoded[j].raw = RawOf(InputPeriods[i])
                    /\ HasVisibility(InputPeriods[i]) => Decoded[j].visibility # None
                    /\ HasWind(InputPeriods[i]) => Decoded[j].wind # None

\* the periods that were decoded, each with the decoded period it gave
DecodedPairs ==
    {<<InputPeriods[i], Decoded[i]>> : i \in 1..Len(Decoded)}

\* the wind direction is absent (missing or null) or exactly 0
DirectionAbsentOrZero(period) ==
    \/ "wdir" \notin DOMAIN period
    \/ period.wdir = None
    \/ IsNumber(period.wdir) /\ ToFloat(period.wdir).m = 0

SpeedGiven(period) == "wspd" \in DOMAIN period /\ IsNumber(period.wspd)
GustGiven(period) == "wgst" \in DOMAIN period /\ IsNumber(period.wgst) /\ period.wgst.v # 0

\* C16: for every forecast period with a wind speed N whose wind direction is
\* absent (missing or null) or exactly 0, the wind description is "variable at
\* N kt", with the gust suffix when a gust is present, and holds no degree value
\* and no compass point.
C16_VariableWind ==
    TafDone =>
        \A pair \in DecodedPairs :
            (SpeedGiven(pair[1]) /\ DirectionAbsentOrZero(pair[1])) =>
                /\ pair[2].wind # None
                /\ Flat(pair[2].wind.v) =
                      "variable at " \o PyStr(pair[1].wspd) \o " kt"
                          \o (IF GustGiven(pair[1])
                              THEN " gusting " \o PyStr(pair[1].wgst) \o " kt" ELSE "")

\* the text names North
DenotesNorth(x) ==
    x.t = "str" /\ \E i \in 1..Len(x.v) : x.v[i] \in {"N", "North", "north", "(N)"}

\* C17: a forecast period whose wind direction is 0 with a non-zero speed is
\* never rendered as North in any output field of the decoded period: neither
\* the wind description nor wind_cardinal is "N" or denotes North.
C17_ZeroNeverNorth ==
    TafDone =>
        \A pair \in DecodedPairs :
            ({"wdir", "wspd"} \subseteq DOMAIN pair[1]
                /\ IsNumber(pair[1].wdir) /\ ToFloat(pair[1].wdir).m = 0
                /\ IsNumber(pair[1].wspd) /\ ToFloat(pair[1].wspd).m # 0) =>
                    /\ ~DenotesNorth(pair[2].wind)
                    /\ "wind_cardinal" \in DOMAIN pair[2]
                          => ~DenotesNorth(pair[2].wind_cardinal)


\* sep-joined texts
RECURSIVE JoinWith(_, _)
JoinWith(texts, sep) ==
    IF texts = <<>> THEN ""
    ELSE IF Len(texts) = 1 THEN texts[1]
    ELSE texts[1] \o sep \o JoinWith(Tail(texts), sep)

\* the first two cloud layers of a decoded period
FirstTwo(d) == [i \in 1..(IF Len(d.clouds.v) < 2 THEN Len(d.clouds.v) ELSE 2) |-> d.clouds.v[i]]

\* the name of a decoded layer: its cover text, else its cover code
LayerName(cl) ==
    IF Truthy(Get(cl, "cover_text", None)) THEN cl.cover_text ELSE Get(cl, "cover", None)

LayerPhrase(cl) ==
    PyStr(LayerName(cl))
        \o (IF Truthy(Get(cl, "altitude_agl", None)) THEN " @ " \o PyStr(cl.altitude_agl)
            ELSE "")
        \o (IF Truthy(Get(cl, "cloud_type", None)) THEN " (" \o PyStr(cl.cloud_type) \o ")"
            ELSE "")

\* the parts of the summary that are present, in the fixed order
PresentParts(d) ==
    (IF Truthy(d.valid_from) /\ Truthy(d.valid_to)
     THEN <<PyStr(d.valid_from) \o EnDash \o PyStr(d.valid_to)>> ELSE <<>>)
      \o (IF Truthy(d.type) THEN <<PyStr(d.type)>> ELSE <<>>)
      \o (IF Truthy(d.wind) THEN <<"Wind " \o PyStr(d.wind)>> ELSE <<>>)
      \o (IF Truthy(d.visibility) THEN <<"Vis " \o PyStr(d.visibility)>> ELSE <<>>)
      \o (IF Truthy(d.weather) THEN <<PyStr(d.weather)>> ELSE <<>>)
      \o (IF FirstTwo(d) # <<>>
          THEN <<"Clouds: "
                    \o JoinWith([i \in 1..Len(FirstTwo(d)) |-> LayerPhrase(FirstTwo(d)[i])],
                                ", ")>>
          ELSE <<>>)

\* every text the summary joins is a string
SummaryBuilds(d) ==
    /\ Truthy(d.type) => d.type.t = "str"
    /\ \A i \in 1..Len(FirstTwo(d)) : LayerName(FirstTwo(d)[i]).t = "str"

\* C19 as stated: every decoded forecast period carries a summary line, the
\* "; "-join of exactly the parts that are present, in the fixed order: time
\* window (only when both bounds are present), period type, "Wind ...",
\* "Vis ...", decoded weather, and a cloud summary built from at most the first
\* two cloud layers.
C19_EveryPeriodSummarized ==
    TafDone =>
        \A i \in 1..Len(Decoded) :
            /\ "summary" \in DOMAIN Decoded[i]
            /\ Flat(Decoded[i].summary.v) = JoinWith(PresentParts(Decoded[i]), "; ")

\* C19 (amended): a decoded forecast period carries a summary line exactly when
\* every text to join is a string (its type, when not empty, and the cover text
\* or cover code of each of its first two cloud layers); the line is then the
\* "; "-join of the parts that are present, in the fixed order; otherwise the
\* period is returned without a summary.
C19_SummaryWhenItBuilds ==
    TafDone =>
        \A i \in 1..Len(Decoded) :
            IF SummaryBuilds(Decoded[i])
            THEN /\ "summary" \in DOMAIN Decoded[i]
                 /\ Flat(Decoded[i].summary.v) = JoinWith(PresentParts(Decoded[i]), "; ")
            ELSE "summary" \notin DOMAIN Decoded[i]

\* a period with three cloud layers was summarised by its first two
C19_Witness ==
    /\ TafDone
    /\ \E i \in 1..Len(Decoded) :
          /\ Len(Decoded[i].clouds.v) = 3
          /\ "summary" \in DOMAIN Decoded[i]
          /\ Flat(Decoded[i].summary.v)
                = "Base; Light Rain; Clouds: Few @ 1,000 ft AGL (Cumulonimbus), XX @ 2,500 ft AGL"

(***************************************************************************)
(* The three tiers of decode_cloud_layers (SpecClouds).                    *)
(***************************************************************************)
\* the record carries a usable value in the field (present, not null, not empty)
Supplied(field) == field \in DOMAIN CloudRecord /\ Truthy(CloudRecord[field])

\* the output holds the synthetic layer of the third tier
SyntheticCeiling ==
    \E i \in 1..Len(LayersOut) :
        "cover" \in DOMAIN LayersOut[i] /\ LayersOut[i].cover = StrV(<<"Ceiling">>)

\* C24: decode_cloud_layers takes its layers from exactly one of three tiers,
\* in priority order: the per-layer clouds array, else the single overall
\* cover code, else the bare ceiling value (one synthetic layer labeled
\* "Ceiling").  A lower tier contributes only when the input of every higher
\* tier is absent: an observation that carries an overall cover code never
\* yields the synthetic "Ceiling" layer.
C24_OneTierInPriority ==
    (CloudsDone /\ result.st = "returned") =>
        /\ Supplied("clouds") =>
              /\ Len(LayersOut) = Len(CloudRecord.clouds.v)
              /\ ~SyntheticCeiling
        /\ (~Supplied("clouds") /\ Supplied("cover")) => ~SyntheticCeiling
        /\ SyntheticCeiling => (~Supplied("clouds") /\ ~Supplied("cover"))

(***************************************************************************)
(* The validity window of a forecast period (SpecTaf).                     *)
(***************************************************************************)
\* the period supplies a value under the name (the field is there and not null)
Supplies(period, name) == name \in DOMAIN period /\ period[name] # None

\* the bound in the slot, resolved by the lookup over the two names
ResolvedBound(period, d, first, second, slot) ==
    IF Supplies(period, first)
    THEN d[slot] = convert_to_local_time(period[first]).local_short
    ELSE IF Supplies(period, second)
    THEN d[slot] = convert_to_local_time(period[second]).local_short
    ELSE d[slot] = None

\* C25: each bound of a forecast period's validity window is resolved by a
\* priority-ordered alias lookup: valid_from is the localization of timeFrom
\* when the period supplies it, otherwise of validTimeFrom (likewise valid_to
\* from timeTo, then validTimeTo), and the bound is absent (None, not an empty
\* string) when the period supplies no usable value under either name.
C25_BoundByAlias ==
    TafDone =>
        \A pair \in DecodedPairs :
            /\ ResolvedBound(pair[1], pair[2], "timeFrom", "validTimeFrom", "valid_from")
            /\ ResolvedBound(pair[1], pair[2], "timeTo", "validTimeTo", "valid_to")

(***************************************************************************)
(* The order of the encodings of convert_to_local_time (SpecTime).         *)
(***************************************************************************)
\* a number, or a string that looks like one (an integer or a decimal)
LooksNumeric(x) ==
    \/ IsNumber(x)
    \/ x.t = "timestr" /\ x.form \in {"digits", "decimal"}
    \/ x.t = "str" /\ SpellsEpoch(x.v)

\* the encoding the input is to be read in, by the fixed order
EncodingOf(x) ==
    IF LooksNumeric(x) THEN "epoch"
    ELSE IF x.t = "timestr" /\ x.form = "iso" THEN "iso"
    ELSE IF x.t = "timestr" /\ x.form = "ymd" THEN "ymd"
    ELSE "none"

\* the instant the input denotes, in whole epoch seconds
InstantOf(x) ==
    IF IsNumber(x) THEN IntOf(x).v
    ELSE IF x.t = "timestr" THEN x.epoch
    ELSE IntOfText(Strip(x.v)).val

\* C26: convert_to_local_time tries the encodings in a fixed order and the
\* first success wins: a non-empty input that is a number or any
\* numeric-looking string (integer or decimal) is read as Unix epoch seconds;
\* otherwise a string containing "T" is read as ISO-8601; otherwise the string
\* is read with the pattern YYYY-MM-DD HH:MM:SS as UTC.  In each case the
\* result is the localization of the instant read.
C26_FirstEncodingWins ==
    (TimeDone /\ Truthy(TimeInput) /\ EncodingOf(TimeInput) # "none") =>
        Slots = Localized(InstantOf(TimeInput))

(***************************************************************************)
(* The return statement calculate_flight_category leaves through, by its   *)
(* line: 823 (VFR), 827 (LIFR), 831 (IFR), 835 (MVFR) or the trailing 837. *)
(***************************************************************************)
\* the variant whose fourth test is strict
ExecutedReturnStrict(visibility_sm, ceiling_ft) ==
    LET v == ToFloat(visibility_sm)
        c == ceiling_ft
    IN IF FGt(v, 5) /\ (c = None \/ c.v > 3000) THEN 823
       ELSE IF FLt(v, 1) \/ (c # None /\ c.v < 500) THEN 827
       ELSE IF FLt(v, 3) \/ (c # None /\ c.v < 1000) THEN 831
       ELSE IF FLt(v, 5) \/ (c # None /\ c.v < 3000) THEN 835
       ELSE 837

ExecutedReturn(visibility_sm, ceiling_ft) ==
    LET v == ToFloat(visibility_sm)
        c == ceiling_ft
    IN IF FGt(v, 5) /\ (c = None \/ c.v > 3000) THEN 823
       ELSE IF FLt(v, 1) \/ (c # None /\ c.v < 500) THEN 827
       ELSE IF FLt(v, 3) \/ (c # None /\ c.v < 1000) THEN 831
       ELSE IF FLe(v, 5) \/ (c # None /\ c.v <= 3000) THEN 835
       ELSE 837

(***************************************************************************)
(* Specification of calculate_flight_category that records the return      *)
(* statement taken: the visibilities of VisGrid, whole numbers of miles    *)
(* and NaN, with the optional ceilings of CeilGrid.                        *)
(***************************************************************************)
InitReturn ==
    /\ call \in {[op |-> "calculate_flight_category", args |-> <<v, c>>] :
                    v \in VisGrid \cup {NaN} \cup {IntV(n) : n \in 0..(MaxVisTenths \div 10)},
                    c \in CeilGrid}
    /\ result = Pending
    /\ called = {}
    /\ InitGlobals

ClassifyReturn ==
    /\ call.op = "calculate_flight_category"
    /\ result = Pending
    /\ result' = [st |-> "returned",
                  val |-> calculate_flight_category(call.args[1], call.args[2]).val,
                  line |-> ExecutedReturn(call.args[1], call.args[2])]
    /\ called' = {call.op}
    /\ UNCHANGED <<call, weather_cache, mqtt_connected, cycles, cache_file>>

NextReturn == ClassifyReturn

SpecReturn == InitReturn /\ [][NextReturn]_vars

(***************************************************************************)
(* Claims about the rules of calculate_flight_category (SpecReturn).       *)
(***************************************************************************)
Visibility_sm == ToFloat(call.args[1])
Ceiling_ft == call.args[2]

\* the first test (VFR) does not match
NotRule1 == ~(FGt(Visibility_sm, 5) /\ (Ceiling_ft = None \/ Ceiling_ft.v > 3000))

\* C27: the final fallback of calculate_flight_category is unreachable: for
\* every numeric visibility and every optional ceiling, whenever rule 1 (VFR)
\* does not match, one of the LIFR, IFR or MVFR rules matches, so the trailing
\* 'return VFR' (line 837) is never executed.
C27_FallbackUnreachable ==
    Classified => (NotRule1 => result.line \in {827, 831, 835})

\* C27 (amended): for every visibility that is a number other than NaN and every
\* optional ceiling, whenever rule 1 does not match, one of the LIFR, IFR or MVFR
\* rules matches; the trailing 'return VFR' is executed exactly for a NaN
\* visibility with no ceiling or a ceiling above 3000 ft.
C27_FallbackOnlyForNaN ==
    Classified =>
        /\ (~IsNaN(Visibility_sm) /\ NotRule1) => result.line \in {827, 831, 835}
        /\ result.line = 837
              <=> (IsNaN(Visibility_sm) /\ (Ceiling_ft = None \/ Ceiling_ft.v > 3000))

\* visibility 5.0 with no ceiling misses rule 1 and left through the MVFR rule
C27_Witness ==
    /\ Classified
    /\ call.args = <<FloatV(5, 0), None>>
    /\ NotRule1
    /\ result.line = 835

Restrictiveness ==
    [c \in {"LIFR", "IFR", "MVFR", "VFR"} |->
        CASE c = "LIFR" -> 0 [] c = "IFR" -> 1 [] c = "MVFR" -> 2 [] c = "VFR" -> 3]

MoreRestrictive(a, b) == IF Restrictiveness[a] <= Restrictiveness[b] THEN a ELSE b

\* the category the visibility alone gives (v is a number of VisGrid or NaN,
\* for which every comparison is false)
VisibilityOnly(v) ==
    IF IsNaN(v) THEN "VFR"
    ELSE IF Tenths(v) < 10 THEN "LIFR"
    ELSE IF Tenths(v) < 30 THEN "IFR"
    ELSE IF Tenths(v) <= 50 THEN "MVFR"
    ELSE "VFR"

\* the category the ceiling alone gives
CeilingOnly(c) ==
    IF c = None THEN "VFR"
    ELSE IF c.v < 500 THEN "LIFR"
    ELSE IF c.v < 1000 THEN "IFR"
    ELSE IF c.v <= 3000 THEN "MVFR"
    ELSE "VFR"

\* w is a visibility not above v; d is a ceiling not above c (no ceiling is the
\* highest)
LowerVisibility(w, v) == ~IsNaN(w) /\ ~IsNaN(v) /\ Tenths(w) <= Tenths(v)
LowerCeiling(d, c) == d # None /\ (c = None \/ d.v <= c.v)

\* C28: calculate_flight_category equals the more restrictive of a
\* visibility-only category (v < 1 LIFR, v < 3 IFR, v <= 5 MVFR, else VFR) and
\* a ceiling-only category (absent VFR, c < 500 LIFR, c < 1000 IFR, c <= 3000
\* MVFR, else VFR) under the order LIFR < IFR < MVFR < VFR; consequently
\* lowering the visibility or the ceiling never improves the category.
C28_MoreRestrictiveOfTwo ==
    Classified =>
        /\ result.val = MoreRestrictive(VisibilityOnly(Visibility_sm), CeilingOnly(Ceiling_ft))
        /\ \A w \in VisGrid :
              LowerVisibility(w, Visibility_sm) =>
                  Restrictiveness[calculate_flight_category(w, Ceiling_ft).val]
                      <= Restrictiveness[result.val]
        /\ \A d \in CeilGrid :
              LowerCeiling(d, Ceiling_ft) =>
                  Restrictiveness[calculate_flight_category(Visibility_sm, d).val]
                      <= Restrictiveness[result.val]

\* good visibility under a ceiling of 800 ft: the ceiling decides, IFR
C28_Witness ==
    /\ Classified
    /\ call.args = <<FloatV(6, 0), IntV(800)>>
    /\ result.val = "IFR"
    /\ VisibilityOnly(Visibility_sm) = "VFR"
    /\ CeilingOnly(Ceiling_ft) = "IFR"

(***************************************************************************)
(* The fields of the raw observation after the enrichment (Spec).          *)
(***************************************************************************)
\* the fields fetch_metar writes
DerivedFields ==
    {"wxDecoded", "cloudLayers", "flightCategory", "obsTimeLocal", "altimHpa", "altimInHg"}

\* the field still has the value the provider returned
Kept(field) == field \in DOMAIN Enriched /\ Enriched[field] = Raw[field]

\* the provider sent the flight category empty
EmptyCategory == "flightCategory" \in DOMAIN Raw /\ ~Truthy(Raw.flightCategory)

\* C21: enrichment never mutates the raw observation: after fetch_metar has
\* enriched a record, every field the provider supplied (temperature, dewpoint,
\* wind, visibility, altimeter, pressure, weather code, cover, clouds, raw text,
\* observation time, flight category) still has the value the provider
\* returned, and the derived values appear only as additional fields.
C21_RawFieldsKept ==
    (MetarDone /\ HasData /\ ReturnedRecord) =>
        /\ \A field \in DOMAIN Raw : Kept(field)
        /\ (DOMAIN Enriched \ DOMAIN Raw) \subseteq DerivedFields

\* C21 (amended): after fetch_metar has enriched a record, every field the
\* provider supplied still has the value the provider returned, except a flight
\* category supplied empty, which is replaced by the computed category; the
\* other derived values appear only as additional fields.
C21_RawFieldsKeptButEmptyCategory ==
    (MetarDone /\ HasData /\ ReturnedRecord) =>
        /\ \A field \in DOMAIN Raw :
              IF field = "flightCategory" /\ EmptyCategory
              THEN Flat(Enriched.flightCategory.v) \in {"VFR", "MVFR", "IFR", "LIFR"}
              ELSE Kept(field)
        /\ (DOMAIN Enriched \ DOMAIN Raw) \subseteq DerivedFields

\* the observation of the end-to-end example was enriched with the decoded
\* weather, the layers and the category, next to its own fields
C21_Witness ==
    /\ MetarDone /\ HasData /\ ReturnedRecord
    /\ Raw = ExampleObservation
    /\ \A field \in DOMAIN Raw : Kept(field)
    /\ {"wxDecoded", "cloudLayers", "flightCategory"} \subseteq DOMAIN Enriched \ DOMAIN Raw

(***************************************************************************)
(* update_weather_data(): the update cycle.  It runs once at module load   *)
(* and then in one background thread per call of /api/update.  A cycle     *)
(* walks the configured airport codes; cycles[c] holds its position (pc,   *)
(* the index i of the station), its local metar_data and, for the station  *)
(* it is at, the publishing branch it took (path: "none", "mqtt" or "api") *)
(* and what went out to Home Assistant (sent); failed tells that the       *)
(* processing of some station of the cycle raised.  The local taf_data is  *)
(* only handed on to the publishing functions and is left out.             *)
(* A fetch is an HTTP exchange: it yields a record, nothing (status 204,   *)
(* an empty array, a request error) or raises (an error of the enrichment  *)
(* that fetch_metar does not catch).  A record is told apart by the        *)
(* station it was asked for and by the fetch that produced it: cycle and   *)
(* index, <<0, 0>> for a record of an earlier run loaded from the file.    *)
(***************************************************************************)
MaxThreads == 2

Options == call.args[1]

\* params 'ids': airport_code.upper()
FetchedRecord(kind, airport_code, c, i) ==
    [kind |-> kind, station |-> Flat(Upper(airport_code)), fetch |-> <<c, i>>]

\* the variant that keys the cache by the code as configured
CacheKeyAsTyped(airport) == Flat(airport)

\* airport.upper(), the key of the cache
CacheKey(airport) == Flat(Upper(airport))

\* the variant that stores whatever the fetch gave
CacheTafAlways(taf, key, taf_data) == Put(taf, key, taf_data)

\* if taf_data: weather_cache['taf'][airport.upper()] = taf_data
CacheTaf(taf, key, taf_data) ==
    IF taf_data # None THEN Put(taf, key, taf_data) ELSE taf

\* datetime.now().isoformat() at the end of cycle c
FinishTime(c) == [t |-> "time", cycle |-> c]

\* a cycle as it starts: 'if not airport_codes: return'
NewCycle(options) ==
    [pc |-> IF options.airport_codes = <<>> THEN "done" ELSE "fetch_metar",
     i |-> 1, metar_data |-> None, path |-> "none", sent |-> {}, failed |-> FALSE]

\* the next iteration of 'for airport in airport_codes', or the end of the loop
NextStation(f, airport_codes) ==
    [f EXCEPT !.i = f.i + 1, !.metar_data = None, !.path = "none", !.sent = {},
              !.pc = IF f.i + 1 > Len(airport_codes) THEN "finish" ELSE "fetch_metar"]

\* the variant in which the exception ends the cycle
ContinueAbort(f, airport_codes) ==
    [f EXCEPT !.failed = TRUE, !.pc = "done"]

\* except Exception as e: logger.error(...); continue
Continue(f, airport_codes) ==
    NextStation([f EXCEPT !.failed = TRUE], airport_codes)

\* where the cycle goes once the fetches of the station are done
AfterFetch(options) == IF options.create_sensors THEN "check_mqtt" ELSE "sleep"

\* metar_data = fetch_metar(airport); if metar_data: weather_cache['metar'][...] = ...
CycleFetchMetar(c) ==
    /\ cycles[c].pc = "fetch_metar"
    /\ \E outcome \in {"data", "nothing", "raise"} :
          LET f == cycles[c]
              airport == Options.airport_codes[f.i]
              metar_data == FetchedRecord("metar", airport, c, f.i)
          IN CASE outcome = "data" ->
                   /\ weather_cache' =
                          [weather_cache EXCEPT !.metar = Put(@, CacheKey(airport), metar_data)]
                   /\ cycles' = [cycles EXCEPT ![c] =
                          [f EXCEPT !.metar_data = metar_data,
                                    !.pc = IF Options.include_taf THEN "fetch_taf"
                                           ELSE AfterFetch(Options)]]
               [] outcome = "nothing" ->
                   /\ cycles' = [cycles EXCEPT ![c] = [f EXCEPT !.pc = "sleep"]]
                   /\ UNCHANGED weather_cache
               [] outcome = "raise" ->
                   /\ cycles' = [cycles EXCEPT ![c] = [f EXCEPT !.pc = "except"]]
                   /\ UNCHANGED weather_cache
    /\ UNCHANGED <<call, result, called, mqtt_connected, cache_file>>

\* taf_data = fetch_taf(airport); if taf_data: weather_cache['taf'][...] = taf_data
CycleFetchTaf(c) ==
    /\ cycles[c].pc = "fetch_taf"
    /\ \E outcome \in {"data", "nothing", "raise"} :
          LET f == cycles[c]
              airport == Options.airport_codes[f.i]
              taf_data == IF outcome = "data" THEN FetchedRecord("taf", airport, c, f.i)
                          ELSE None
          IN IF outcome = "raise"
             THEN /\ cycles' = [cycles EXCEPT ![c] = [f EXCEPT !.pc = "except"]]
                  /\ UNCHANGED weather_cache
             ELSE /\ weather_cache' =
                         [weather_cache EXCEPT !.taf = CacheTaf(@, CacheKey(airport), taf_data)]
                  /\ cycles' = [cycles EXCEPT ![c] = [f EXCEPT !.pc = AfterFetch(Options)]]
    /\ UNCHANGED <<call, result, called, mqtt_connected, cache_file>>

\* if mqtt_connected: ... else: (the API method)
CheckMqtt(c) ==
    /\ cycles[c].pc = "check_mqtt"
    /\ cycles' = [cycles EXCEPT ![c] =
                      IF mqtt_connected
                      THEN [@ EXCEPT !.path = "mqtt", !.pc = "publish_mqtt_discovery"]
                      ELSE [@ EXCEPT !.path = "api", !.pc = "api"]]
    /\ UNCHANGED <<call, result, called, weather_cache, mqtt_connected, cache_file>>

\* publish_mqtt_discovery(airport.upper()): skipped when not connected, else
\* the discovery messages are handed to the client (an error on the way is
\* caught inside and only logged)
PublishDiscovery(c) ==
    /\ cycles[c].pc = "publish_mqtt_discovery"
    /\ cycles' = [cycles EXCEPT ![c] =
                      [@ EXCEPT !.sent = IF mqtt_connected THEN @ \cup {"discovery"} ELSE @,
                                !.pc = "publish_mqtt_state"]]
    /\ UNCHANGED <<call, result, called, weather_cache, mqtt_connected, cache_file>>

\* publish_mqtt_state(metar_data, taf_data, airport.upper()): skipped when not
\* connected, else the states are handed to the client (an error on the way is
\* caught inside and only logged)
PublishState(c) ==
    /\ cycles[c].pc = "publish_mqtt_state"
    /\ cycles' = [cycles EXCEPT ![c] =
                      [@ EXCEPT !.sent = IF mqtt_connected THEN @ \cup {"state"} ELSE @,
                                !.pc = "sleep"]]
    /\ UNCHANGED <<call, result, called, weather_cache, mqtt_connected, cache_file>>

\* create_ha_sensors(...) and create_ha_weather_entity(...): each posts to the
\* Supervisor API or gives up (no token, an HTTP error); neither raises
ApiMethod(c) ==
    /\ cycles[c].pc = "api"
    /\ \E posted \in SUBSET {"sensors", "weather_entity"} :
          cycles' = [cycles EXCEPT ![c] =
                        [@ EXCEPT !.sent = @ \cup posted,
                                  !.pc = "sleep"]]
    /\ UNCHANGED <<call, result, called, weather_cache, mqtt_connected, cache_file>>

\* time.sleep(0.7), then the next station
Sleep(c) ==
    /\ cycles[c].pc = "sleep"
    /\ cycles' = [cycles EXCEPT ![c] = NextStation(@, Options.airport_codes)]
    /\ UNCHANGED <<call, result, called, weather_cache, mqtt_connected, cache_file>>

\* the handler of the station's try block
Except(c) ==
    /\ cycles[c].pc = "except"
    /\ cycles' = [cycles EXCEPT ![c] = Continue(@, Options.airport_codes)]
    /\ UNCHANGED <<call, result, called, weather_cache, mqtt_connected, cache_file>>

\* save_cache(): the file is opened for writing and the cache is dumped into
\* it; an exception of the dump is caught and logged, and leaves a file that
\* is no JSON document
Unreadable == [t |-> "unreadable"]
save_cache(cache, dumped) == IF dumped THEN cache ELSE Unreadable

\* weather_cache['last_update'] = ...; save_cache()
Finish(c) ==
    /\ cycles[c].pc = "finish"
    /\ weather_cache' = [weather_cache EXCEPT !.last_update = FinishTime(c)]
    /\ \E dumped \in BOOLEAN : cache_file' = save_cache(weather_cache', dumped)
    /\ cycles' = [cycles EXCEPT ![c].pc = "done"]
    /\ UNCHANGED <<call, result, called, mqtt_connected>>

\* /api/update (GET or POST): a background thread runs update_weather_data.
\* The server takes requests once the module is loaded, that is after the
\* cycle of the module load.
ApiUpdate ==
    /\ cycles[1].pc = "done"
    /\ Len(cycles) < 1 + MaxThreads
    /\ cycles' = Append(cycles, NewCycle(Options))
    /\ UNCHANGED <<call, result, called, weather_cache, mqtt_connected, cache_file>>

\* on_mqtt_connect(client, userdata, flags, rc), from the thread of the client
OnMqttConnect ==
    /\ Options.mqtt_enabled
    /\ \E rc \in {0, 5} : mqtt_connected' = (rc = 0)
    /\ UNCHANGED <<call, result, called, weather_cache, cycles, cache_file>>

\* on_mqtt_disconnect(client, userdata, rc)
OnMqttDisconnect ==
    /\ Options.mqtt_enabled
    /\ mqtt_connected' = FALSE
    /\ UNCHANGED <<call, result, called, weather_cache, cycles, cache_file>>

(***************************************************************************)
(* Specification of the update cycles: the module load (the cache file of  *)
(* an earlier run or none, the MQTT client connected or not) followed by   *)
(* its cycle, then at most MaxThreads cycles started by /api/update.       *)
(***************************************************************************)
UpdateInputs ==
    LET KBP == <<"K", "B", "P">>
        kbp == <<"k", "b", "p">>
        KSN == <<"K", "S", "N">>
        AllOn == [airport_codes |-> <<kbp, KSN>>, include_taf |-> TRUE,
                  create_sensors |-> TRUE, mqtt_enabled |-> TRUE]
        Earlier == [metar |-> Put(<<>>, "KBP", FetchedRecord("metar", KBP, 0, 0)),
                    taf |-> Put(<<>>, "KBP", FetchedRecord("taf", KBP, 0, 0)),
                    last_update |-> FinishTime(0)]
        One == [AllOn EXCEPT !.airport_codes = <<KBP>>]
        Two == [AllOn EXCEPT !.create_sensors = FALSE, !.mqtt_enabled = FALSE]
    IN ([options : {One, Two}, file : {NoFile, Unreadable, Earlier}])
          \cup [options : {[AllOn EXCEPT !.airport_codes = <<>>],
                           [AllOn EXCEPT !.airport_codes = <<KBP, kbp>>,
                                         !.include_taf = FALSE, !.mqtt_enabled = FALSE],
                           [One EXCEPT !.include_taf = FALSE],
                           [AllOn EXCEPT !.include_taf = FALSE]},
                file : {Earlier}]

\* load_cache(): the content of the file when there is one
LoadCache(file) ==
    IF file \in {NoFile, Unreadable}
    THEN [metar |-> <<>>, taf |-> <<>>, last_update |-> None]
    ELSE file

InitUpdate ==
    \E input \in UpdateInputs :
        /\ call = [op |-> "update_weather_data", args |-> <<input.options>>]
        /\ result = Pending
        /\ called = {}
        /\ cache_file = input.file
        /\ weather_cache = LoadCache(input.file)
        /\ mqtt_connected \in (IF input.options.mqtt_enabled THEN BOOLEAN ELSE {FALSE})
        /\ cycles = <<NewCycle(input.options)>>

NextUpdate ==
    \/ \E c \in 1..Len(cycles) :
          \/ CycleFetchMetar(c)
          \/ CycleFetchTaf(c)
          \/ CheckMqtt(c)
          \/ PublishDiscovery(c)
          \/ PublishState(c)
          \/ ApiMethod(c)
          \/ Sleep(c)
          \/ Except(c)
          \/ Finish(c)
    \/ ApiUpdate
    \/ OnMqttConnect
    \/ OnMqttDisconnect

SpecUpdate == InitUpdate /\ [][NextUpdate]_vars

(***************************************************************************)
(* Claims about the update cycle (SpecUpdate).                             *)
(***************************************************************************)
Cycles == 1..Len(cycles)
AirportCodes == Options.airport_codes

\* the cycles that ran to their end
Finished == {c \in Cycles : cycles[c].pc = "done" /\ AirportCodes # <<>>}

FetchedFor(r, kind, key) ==
    /\ r.kind = kind
    /\ r.station = key
    /\ \/ r.fetch = <<0, 0>>
       \/ \E c \in Cycles, i \in 1..Len(AirportCodes) :
             /\ r = FetchedRecord(kind, AirportCodes[i], c, i)
             /\ Flat(Upper(AirportCodes[i])) = key
             /\ \/ cycles[c].i > i
                \/ cycles[c].i = i /\ cycles[c].pc # "fetch_metar"

\* C23: under any interleaving of update cycles (the cycle of the module load
\* and the background threads started by /api/update), results are never
\* merged across stations or across fetches: in every reachable state the
\* METAR (resp. TAF) cached under station key S is the complete record produced
\* by one single fetch made for S, never a mixture of two fetches and never a
\* record fetched for another station.
C23_OneFetchPerCachedRecord ==
    /\ \A key \in DOMAIN weather_cache.metar :
          FetchedFor(weather_cache.metar[key], "metar", key)
    /\ \A key \in DOMAIN weather_cache.taf :
          FetchedFor(weather_cache.taf[key], "taf", key)

\* two background threads are both at the station KBP, each with a METAR of
\* its own; the cache holds the one of the first thread, stored last
C23_Witness ==
    /\ Len(cycles) = 3
    /\ cycles[2].metar_data # None /\ cycles[3].metar_data # None
    /\ cycles[2].metar_data.station = "KBP" /\ cycles[3].metar_data.station = "KBP"
    /\ cycles[2].pc # "done" /\ cycles[3].pc = "sleep"
    /\ weather_cache.metar["KBP"] = cycles[2].metar_data

\* the station the cycle is at
StationOf(c) == CacheKey(AirportCodes[cycles[c].i])

\* the cycle has ended the station it is at
StationEnded(c) == cycles[c].pc \in {"sleep", "except"}

\* the cycle leaves the TAF fetch of the station it is at
TafFetched(c) == cycles[c].pc = "fetch_taf" /\ cycles'[c].pc # "fetch_taf"

\* C29: in an update cycle a station's TAF is fetched only after that station's
\* METAR was fetched successfully in the same cycle: when the METAR fetch yields
\* nothing, the cycle leaves both the cached METAR and the cached TAF of that
\* station unchanged and publishes nothing for it; when the METAR succeeds but
\* the TAF fetch yields nothing, the previously cached TAF is kept.
C29_TafOnlyAfterMetar ==
    /\ [](\A c \in Cycles :
            /\ cycles[c].pc = "fetch_taf" => cycles[c].metar_data # None
            /\ (StationEnded(c) /\ cycles[c].metar_data = None) =>
                  cycles[c].sent = {} /\ cycles[c].path = "none")
    /\ [][\A c \in Cycles :
            /\ (cycles[c].pc = "fetch_metar" /\ StationEnded(c)' /\ cycles'[c].metar_data = None) =>
                  weather_cache' = weather_cache
            /\ TafFetched(c) =>
                  \/ weather_cache' = weather_cache
                  \/ /\ weather_cache'.metar = weather_cache.metar
                     /\ weather_cache'.taf =
                            Put(weather_cache.taf, StationOf(c),
                                FetchedRecord("taf", AirportCodes[cycles[c].i], c, cycles[c].i))]_vars

\* the METAR fetch of the module load's cycle gave nothing for KBP: the records
\* of the earlier run are still cached and nothing went out
C29_Witness ==
    /\ cycles[1].pc = "sleep"
    /\ cycles[1].i = 1
    /\ cycles[1].metar_data = None
    /\ cycles[1].sent = {}
    /\ "KBP" \in DOMAIN weather_cache.metar \cap DOMAIN weather_cache.taf
    /\ weather_cache.metar["KBP"].fetch = <<0, 0>>
    /\ weather_cache.taf["KBP"].fetch = <<0, 0>>

\* C30: with sensor creation enabled, a station whose METAR was fetched is
\* published through exactly one path per cycle, with the Supervisor-API method
\* as the fallback whenever MQTT is not available: if the MQTT publish is
\* skipped because the client is not connected (including a disconnect callback
\* arriving between the connectivity check and the publish), the API method is
\* used for that station in that cycle, so a cycle never ends with the station
\* published through neither path; and discovery is always published before
\* state on the MQTT path.
C30_OnePublishPath ==
    \A c \in Cycles :
        (cycles[c].pc = "sleep" /\ Options.create_sensors /\ cycles[c].metar_data # None) =>
            LET mqtt == cycles[c].sent \cap {"discovery", "state"} # {}
                api == cycles[c].path = "api"
            IN /\ mqtt \/ api
               /\ ~(mqtt /\ api)
               /\ "state" \in cycles[c].sent => "discovery" \in cycles[c].sent

====
